---- MODULE Spec2Model ----
(***************************************************************************)
(* A model of the ibc-rs host-side message processor: the mock host        *)
(* context (modules/src/mock/context.rs), the ICS-26 routing layer          *)
(* (deliver, dispatch), the ICS-04 send_packet handler and the mock light  *)
(* client.  The context is one record, as MockContext is one struct, so    *)
(* that deliver's clone-and-swap is an assignment of the whole record.     *)
(***************************************************************************)
EXTENDS Integers, Sequences, FiniteSets, TLC

VARIABLES ctx, last, sent

vars == <<ctx, last, sent>>

(***************************************************************************)
(* Bounds of the model.                                                    *)
(***************************************************************************)
\* longest batch handed to deliver
MaxBatch == 2
\* highest value next_sequence_send may take in an explored state
MaxSeq == 3
\* highest revision height of a header submitted to a client
MaxHeight == 3
\* highest value of an identifier counter in an explored state
MaxIds == 2

(***************************************************************************)
(* Option, Result and HashMap.                                             *)
(***************************************************************************)
NoneV == <<>>

Some(x) == <<x>>

IsSome(o) == o # NoneV

Unwrap(o) == o[1]

Ok(v) == [ok |-> TRUE, val |-> v]

Err(e) == [ok |-> FALSE, err |-> e]

EmptyMap == <<>>

MapGet(m, k) == IF k \in DOMAIN m THEN Some(m[k]) ELSE NoneV

MapInsert(m, k, v) == [x \in (DOMAIN m) \cup {k} |-> IF x = k THEN v ELSE m[x]]

MapRemove(m, k) == [x \in (DOMAIN m) \ {k} |-> m[x]]

(***************************************************************************)
(* Domain types.                                                           *)
(***************************************************************************)
Height(rn, rh) == [revision_number |-> rn, revision_height |-> rh]

HeightZero == Height(0, 0)

HeightIsZero(h) == h.revision_number = 0 /\ h.revision_height = 0

\* Height's order: by revision number, then by revision height
HeightLE(a, b) ==
    \/ a.revision_number < b.revision_number
    \/ /\ a.revision_number = b.revision_number
       /\ a.revision_height <= b.revision_height

HeightIncrement(h) == Height(h.revision_number, h.revision_height + 1)

\* Timestamp: nanoseconds, 0 standing for the "none" sentinel
TimestampNone == 0

check_expiry(self, other) ==
    IF self # TimestampNone /\ other # TimestampNone
    THEN (IF self > other THEN "Expired" ELSE "NotExpired")
    ELSE "InvalidTimestamp"

SequenceIncrement(s) == s + 1

ClientId(ctype, counter) == <<ctype, counter>>

ConnectionId(n) == <<"connection", n>>

ChannelId(n) == <<"channel", n>>

DefaultClientId == ClientId("Tendermint", 0)

DefaultConnectionId == ConnectionId(0)

DefaultChannelId == ChannelId(0)

DefaultPortId == "defaultPort"

MockHeader(h, ts) == [height |-> h, timestamp |-> ts]

MockHeaderNew(h) == MockHeader(h, TimestampNone)

MockClientState(header) == [type |-> "Mock", header |-> header, frozen |-> FALSE]

MockConsensusState(header) == [type |-> "Mock", header |-> header]

client_type(state) == state.type

latest_height(client_state) == client_state.header.height

is_frozen(client_state) == client_state.frozen

timestamp(consensus_state) == consensus_state.header.timestamp

ChannelCounterparty(port_id, channel_id) == [port_id |-> port_id, channel_id |-> channel_id]

ChannelEnd(state, ordering, remote, connection_hops, version) ==
    [state |-> state, ordering |-> ordering, remote |-> remote,
     connection_hops |-> connection_hops, version |-> version]

state_matches(channel_end, state) == channel_end.state = state

counterparty_matches(channel_end, other) == channel_end.remote = other

ConnectionCounterparty(client_id, connection_id) ==
    [client_id |-> client_id, connection_id |-> connection_id, prefix |-> "ibc"]

ConnectionEnd(state, client_id, counterparty) ==
    [state |-> state, client_id |-> client_id, counterparty |-> counterparty,
     versions |-> <<"1">>, delay_period |-> 0]

Packet(seq, sp, sc, dp, dc, th, tt) ==
    [sequence |-> seq, source_port |-> sp, source_channel |-> sc,
     destination_port |-> dp, destination_channel |-> dc, data |-> <<0>>,
     timeout_height |-> th, timeout_timestamp |-> tt]

(***************************************************************************)
(* MockContext.                                                            *)
(***************************************************************************)
HostBlock(h) == [height |-> h]

MockContextNew(max_history_size, latest) ==
    LET n == IF max_history_size < latest.revision_height
             THEN max_history_size ELSE latest.revision_height
    IN [host_chain_type |-> "Mock",
        host_chain_id |-> <<"mockgaia", latest.revision_number>>,
        max_history_size |-> max_history_size,
        latest_height |-> latest,
        timestamp |-> TimestampNone,
        history |-> [i \in 1..n |->
                       HostBlock(Height(latest.revision_number,
                                        latest.revision_height - (n - i)))],
        clients |-> EmptyMap,
        client_ids_counter |-> 0,
        client_connections |-> EmptyMap,
        connections |-> EmptyMap,
        connection_ids_counter |-> 0,
        connection_channels |-> EmptyMap,
        channel_ids_counter |-> 0,
        channels |-> EmptyMap,
        next_sequence_send |-> EmptyMap,
        next_sequence_recv |-> EmptyMap,
        next_sequence_ack |-> EmptyMap,
        packet_acknowledgement |-> EmptyMap,
        port_capabilities |-> EmptyMap,
        packet_commitment |-> EmptyMap,
        packet_receipt |-> EmptyMap]

MockContextDefault == MockContextNew(5, Height(0, 5))

ClientRecord(ctype, client_state, consensus_states) ==
    [client_type |-> ctype, client_state |-> client_state,
     consensus_states |-> consensus_states]

\* with_client_parametrized for a Mock client
with_client_parametrized(c, client_id, client_state_height, consensus_state_height) ==
    LET cs_height == IF consensus_state_height = NoneV THEN client_state_height
                     ELSE Unwrap(consensus_state_height)
        record == ClientRecord("Mock",
                      Some(MockClientState(MockHeaderNew(client_state_height))),
                      MapInsert(EmptyMap, cs_height,
                                MockConsensusState(MockHeaderNew(cs_height))))
    IN [c EXCEPT !.clients = MapInsert(@, client_id, record)]

with_client(c, client_id, height) ==
    with_client_parametrized(c, client_id, height, Some(height))

with_connection(c, connection_id, connection_end) ==
    [c EXCEPT !.connections = MapInsert(@, connection_id, connection_end)]

with_port_capability(c, port_id) ==
    [c EXCEPT !.port_capabilities = MapInsert(@, port_id, "capability")]

with_channel(c, port_id, chan_id, channel_end) ==
    [c EXCEPT !.channels = MapInsert(@, <<port_id, chan_id>>, channel_end)]

with_send_sequence(c, port_id, chan_id, seq_number) ==
    [c EXCEPT !.next_sequence_send = MapInsert(@, <<port_id, chan_id>>, seq_number)]

with_recv_sequence(c, port_id, chan_id, seq_number) ==
    [c EXCEPT !.next_sequence_recv = MapInsert(@, <<port_id, chan_id>>, seq_number)]

\* the new next_sequence_ack is made of a clone of next_sequence_send
with_ack_sequence(c, port_id, chan_id, seq_number) ==
    [c EXCEPT !.next_sequence_ack =
                 MapInsert(c.next_sequence_send, <<port_id, chan_id>>, seq_number)]

(***************************************************************************)
(* Readers of MockContext.                                                 *)
(***************************************************************************)
lookup_module_by_port(c, port_id) == MapGet(c.port_capabilities, port_id)

authenticate(c, cap, port_id) == TRUE

channel_end(c, pcid) == MapGet(c.channels, pcid)

connection_end(c, cid) == MapGet(c.connections, cid)

reader_client_type(c, client_id) ==
    IF client_id \in DOMAIN c.clients
    THEN Some(c.clients[client_id].client_type) ELSE NoneV

client_state(c, client_id) ==
    IF client_id \in DOMAIN c.clients
    THEN c.clients[client_id].client_state ELSE NoneV

consensus_state(c, client_id, height) ==
    IF client_id \in DOMAIN c.clients
    THEN MapGet(c.clients[client_id].consensus_states, height) ELSE NoneV

client_counter(c) == c.client_ids_counter

\* a capability lookup that grants the capability to every port
authenticated_capability_granted(c, port_id) == Ok("capability")

authenticated_capability(c, port_id) ==
    LET cap == lookup_module_by_port(c, port_id)
    IN IF IsSome(cap)
       THEN (IF ~authenticate(c, Unwrap(cap), port_id)
             THEN Err([kind |-> "InvalidPortCapability"])
             ELSE Ok(Unwrap(cap)))
       ELSE Err([kind |-> "NoPortCapability", port_id |-> port_id])

get_next_sequence_send(c, port_channel_id) == MapGet(c.next_sequence_send, port_channel_id)

get_packet_commitment(c, key) == MapGet(c.packet_commitment, key)

\* hash: a digest of the formatted input, kept as the input it is a digest of
hash(input) == [sha256 |-> input]

get_next_sequence_recv(c, port_channel_id) == MapGet(c.next_sequence_recv, port_channel_id)

get_next_sequence_ack(c, port_channel_id) == MapGet(c.next_sequence_ack, port_channel_id)

get_packet_receipt(c, key) == MapGet(c.packet_receipt, key)

host_height(c) == c.latest_height

host_timestamp(c) == c.timestamp

channel_counter(c) == c.channel_ids_counter

connection_counter(c) == c.connection_ids_counter

(***************************************************************************)
(* Keepers of MockContext.                                                 *)
(***************************************************************************)
\* a keeper that drops the commitment
store_packet_commitment_dropped(c, key, timeout_timestamp, timeout_height, data) == c

store_packet_commitment(c, key, timeout_timestamp, timeout_height, data) ==
    LET input == <<timeout_timestamp, timeout_height, data>>
    IN [c EXCEPT !.packet_commitment = MapInsert(@, key, hash(input))]

\* a keeper that keeps the commitment
delete_packet_commitment_kept(c, key) == c

delete_packet_commitment(c, key) ==
    [c EXCEPT !.packet_commitment = MapRemove(@, key)]

\* a keeper that drops the next send sequence it is given
store_next_sequence_send_dropped(c, port_channel_id, seq) == c

store_next_sequence_send(c, port_channel_id, seq) ==
    [c EXCEPT !.next_sequence_send = MapInsert(@, port_channel_id, seq)]

\* a keeper that drops the sequence
store_next_sequence_recv_dropped(c, port_channel_id, seq) == c

store_next_sequence_recv(c, port_channel_id, seq) ==
    [c EXCEPT !.next_sequence_recv = MapInsert(@, port_channel_id, seq)]

store_next_sequence_ack(c, port_channel_id, seq) ==
    [c EXCEPT !.next_sequence_ack = MapInsert(@, port_channel_id, seq)]

\* a keeper that drops the receipt
store_packet_receipt_dropped(c, key, receipt) == c

store_packet_receipt(c, key, receipt) ==
    [c EXCEPT !.packet_receipt = MapInsert(@, key, receipt)]

\* a keeper that removes a channel when it is given its Closed end
store_channel_closed_removed(c, port_channel_id, chan_end) ==
    IF chan_end.state = "Closed"
    THEN [c EXCEPT !.channels = MapRemove(@, port_channel_id)]
    ELSE [c EXCEPT !.channels = MapInsert(@, port_channel_id, chan_end)]

store_channel(c, port_channel_id, chan_end) ==
    [c EXCEPT !.channels = MapInsert(@, port_channel_id, chan_end)]

store_connection_channels(c, cid, port_channel_id) ==
    [c EXCEPT !.connection_channels =
         MapInsert(@, cid, Append(IF cid \in DOMAIN @ THEN @[cid] ELSE <<>>,
                                  port_channel_id))]

increase_channel_counter(c) ==
    [c EXCEPT !.channel_ids_counter = @ + 1]

\* a keeper that drops the connection end
store_connection_dropped(c, connection_id, conn_end) == c

store_connection(c, connection_id, conn_end) ==
    [c EXCEPT !.connections = MapInsert(@, connection_id, conn_end)]

store_connection_to_client(c, connection_id, client_id) ==
    [c EXCEPT !.client_connections = MapInsert(@, client_id, connection_id)]

increase_connection_counter_kept(c) == c

increase_connection_counter(c) ==
    [c EXCEPT !.connection_ids_counter = @ + 1]

store_client_type(c, client_id, ctype) ==
    LET record == IF client_id \in DOMAIN c.clients THEN c.clients[client_id]
                  ELSE ClientRecord(ctype, NoneV, EmptyMap)
    IN [c EXCEPT !.clients = MapInsert(@, client_id, [record EXCEPT !.client_type = ctype])]

store_client_state(c, client_id, cs) ==
    LET record == IF client_id \in DOMAIN c.clients THEN c.clients[client_id]
                  ELSE ClientRecord(client_type(cs), NoneV, EmptyMap)
    IN [c EXCEPT !.clients =
            MapInsert(@, client_id, [record EXCEPT !.client_state = Some(cs)])]

store_consensus_state_only(c, client_id, height, cons) ==
    LET record == IF client_id \in DOMAIN c.clients THEN c.clients[client_id]
                  ELSE ClientRecord("Mock", NoneV, EmptyMap)
    IN [c EXCEPT !.clients =
            MapInsert(@, client_id,
                [record EXCEPT !.consensus_states = MapInsert(EmptyMap, height, cons)])]

\* a keeper that leaves a record alone once it holds a consensus state
store_consensus_state_first_only(c, client_id, height, cons) ==
    LET record == IF client_id \in DOMAIN c.clients THEN c.clients[client_id]
                  ELSE ClientRecord("Mock", NoneV, EmptyMap)
    IN [c EXCEPT !.clients =
            MapInsert(@, client_id,
                [record EXCEPT !.consensus_states =
                                  IF @ = EmptyMap THEN MapInsert(@, height, cons)
                                  ELSE @])]

store_consensus_state(c, client_id, height, cons) ==
    LET record == IF client_id \in DOMAIN c.clients THEN c.clients[client_id]
                  ELSE ClientRecord("Mock", NoneV, EmptyMap)
    IN [c EXCEPT !.clients =
            MapInsert(@, client_id,
                [record EXCEPT !.consensus_states = MapInsert(@, height, cons)])]

increase_client_counter_kept(c) == c

increase_client_counter(c) ==
    [c EXCEPT !.client_ids_counter = @ + 1]

(***************************************************************************)
(* Handler output.                                                         *)
(***************************************************************************)
HandlerOutput(result, events, log) == [result |-> result, events |-> events, log |-> log]

(***************************************************************************)
(* ICS-04 send_packet.                                                     *)
(***************************************************************************)
\* the result of a send that leaves the next sequence as it was
SendPacketResult_not_incremented(packet, next_seq_send) ==
    [type |-> "Send",
     port_id |-> packet.source_port,
     channel_id |-> packet.source_channel,
     seq |-> packet.sequence,
     seq_number |-> next_seq_send,
     data |-> packet.data,
     timeout_height |-> packet.timeout_height,
     timeout_timestamp |-> packet.timeout_timestamp]

SendPacketResult(packet, next_seq_send) ==
    [type |-> "Send",
     port_id |-> packet.source_port,
     channel_id |-> packet.source_channel,
     seq |-> packet.sequence,
     seq_number |-> SequenceIncrement(next_seq_send),
     data |-> packet.data,
     timeout_height |-> packet.timeout_height,
     timeout_timestamp |-> packet.timeout_timestamp]

\* the sequence check letting through every sequence from the next one on
send_packet_sequence_at_least(c, packet) ==
    LET next_seq_send ==
            get_next_sequence_send(c, <<packet.source_port, packet.source_channel>>)
    IN IF next_seq_send = NoneV THEN Err([kind |-> "MissingNextSendSeq"])
       ELSE IF packet.sequence < Unwrap(next_seq_send)
       THEN Err([kind |-> "InvalidPacketSequence", sequence |-> packet.sequence,
                 next_seq_send |-> Unwrap(next_seq_send)])
       ELSE Ok(HandlerOutput(SendPacketResult(packet, Unwrap(next_seq_send)),
                  <<[kind |-> "SendPacket", height |-> packet.timeout_height,
                     packet |-> packet]>>,
                  <<"success: packet send ">>))

\* the sequence check with an output that emits no event
send_packet_sequence_silent(c, packet) ==
    LET next_seq_send ==
            get_next_sequence_send(c, <<packet.source_port, packet.source_channel>>)
    IN IF next_seq_send = NoneV THEN Err([kind |-> "MissingNextSendSeq"])
       ELSE IF packet.sequence # Unwrap(next_seq_send)
       THEN Err([kind |-> "InvalidPacketSequence", sequence |-> packet.sequence,
                 next_seq_send |-> Unwrap(next_seq_send)])
       ELSE Ok(HandlerOutput(SendPacketResult(packet, Unwrap(next_seq_send)),
                  <<>>, <<"success: packet send ">>))

\* the sequence check and the construction of the output (send_packet.rs 88-114)
send_packet_sequence(c, packet) ==
    LET next_seq_send ==
            get_next_sequence_send(c, <<packet.source_port, packet.source_channel>>)
    IN IF next_seq_send = NoneV THEN Err([kind |-> "MissingNextSendSeq"])
       ELSE IF packet.sequence # Unwrap(next_seq_send)
       THEN Err([kind |-> "InvalidPacketSequence", sequence |-> packet.sequence,
                 next_seq_send |-> Unwrap(next_seq_send)])
       ELSE Ok(HandlerOutput(SendPacketResult(packet, Unwrap(next_seq_send)),
                  <<[kind |-> "SendPacket", height |-> packet.timeout_height,
                     packet |-> packet]>>,
                  <<"success: packet send ">>))

\* the timeout checks letting through a timeout height equal to the latest height
send_packet_timeouts_strict(c, packet, client_id, cstate) ==
    LET latest == latest_height(cstate)
        cons == consensus_state(c, client_id, latest)
    IN IF /\ ~HeightIsZero(packet.timeout_height)
          /\ HeightLE(packet.timeout_height, latest)
          /\ packet.timeout_height # latest
       THEN Err([kind |-> "LowPacketHeight", latest_height |-> latest,
                 timeout_height |-> packet.timeout_height])
       ELSE IF cons = NoneV
       THEN Err([kind |-> "MissingClientConsensusState", client_id |-> client_id,
                 height |-> latest])
       ELSE IF check_expiry(timestamp(Unwrap(cons)), packet.timeout_timestamp) = "Expired"
       THEN Err([kind |-> "LowPacketTimestamp"])
       ELSE send_packet_sequence(c, packet)

\* the timeout checks letting through only a timeout timestamp found NotExpired
send_packet_timeouts_not_expired_only(c, packet, client_id, cstate) ==
    LET latest == latest_height(cstate)
        cons == consensus_state(c, client_id, latest)
    IN IF ~HeightIsZero(packet.timeout_height) /\ HeightLE(packet.timeout_height, latest)
       THEN Err([kind |-> "LowPacketHeight", latest_height |-> latest,
                 timeout_height |-> packet.timeout_height])
       ELSE IF cons = NoneV
       THEN Err([kind |-> "MissingClientConsensusState", client_id |-> client_id,
                 height |-> latest])
       ELSE IF check_expiry(timestamp(Unwrap(cons)), packet.timeout_timestamp)
                   # "NotExpired"
       THEN Err([kind |-> "LowPacketTimestamp"])
       ELSE send_packet_sequence(c, packet)

\* the timeout checks against the client (send_packet.rs 68-86)
send_packet_timeouts(c, packet, client_id, cstate) ==
    LET latest == latest_height(cstate)
        cons == consensus_state(c, client_id, latest)
    IN IF ~HeightIsZero(packet.timeout_height) /\ HeightLE(packet.timeout_height, latest)
       THEN Err([kind |-> "LowPacketHeight", latest_height |-> latest,
                 timeout_height |-> packet.timeout_height])
       ELSE IF cons = NoneV
       THEN Err([kind |-> "MissingClientConsensusState", client_id |-> client_id,
                 height |-> latest])
       ELSE IF check_expiry(timestamp(Unwrap(cons)), packet.timeout_timestamp) = "Expired"
       THEN Err([kind |-> "LowPacketTimestamp"])
       ELSE send_packet_sequence(c, packet)

\* the connection and client checks (send_packet.rs 53-66)
send_packet_client(c, packet, source_channel_end) ==
    LET hop == source_channel_end.connection_hops[1]
        conn == connection_end(c, hop)
    IN IF conn = NoneV THEN Err([kind |-> "MissingConnection", connection_id |-> hop])
       ELSE LET client_id == Unwrap(conn).client_id
                cstate == client_state(c, client_id)
            IN IF cstate = NoneV
               THEN Err([kind |-> "MissingClientState", client_id |-> client_id])
               ELSE IF is_frozen(Unwrap(cstate))
               THEN Err([kind |-> "FrozenClient", client_id |-> client_id])
               ELSE send_packet_timeouts(c, packet, client_id, Unwrap(cstate))

\* send_packet asking for the port capability before it looks at the channel state
send_packet_capability_first(c, packet) ==
    LET source_channel_end ==
            channel_end(c, <<packet.source_port, packet.source_channel>>)
        cap == authenticated_capability(c, packet.source_port)
        counterparty == ChannelCounterparty(packet.destination_port,
                                            Some(packet.destination_channel))
    IN IF source_channel_end = NoneV
       THEN Err([kind |-> "ChannelNotFound", port_id |-> packet.source_port,
                 channel_id |-> packet.source_channel])
       ELSE IF ~cap.ok THEN cap
       ELSE IF state_matches(Unwrap(source_channel_end), "Closed")
       THEN Err([kind |-> "ChannelClosed", channel_id |-> packet.source_channel])
       ELSE IF ~counterparty_matches(Unwrap(source_channel_end), counterparty)
       THEN Err([kind |-> "InvalidPacketCounterparty",
                 port_id |-> packet.destination_port,
                 channel_id |-> packet.destination_channel])
       ELSE send_packet_client(c, packet, Unwrap(source_channel_end))

\* send_packet letting only an Open channel through its state check
send_packet_open_only(c, packet) ==
    LET source_channel_end ==
            channel_end(c, <<packet.source_port, packet.source_channel>>)
        cap == authenticated_capability(c, packet.source_port)
        counterparty == ChannelCounterparty(packet.destination_port,
                                            Some(packet.destination_channel))
    IN IF source_channel_end = NoneV
       THEN Err([kind |-> "ChannelNotFound", port_id |-> packet.source_port,
                 channel_id |-> packet.source_channel])
       ELSE IF ~state_matches(Unwrap(source_channel_end), "Open")
       THEN Err([kind |-> "ChannelClosed", channel_id |-> packet.source_channel])
       ELSE IF ~cap.ok THEN cap
       ELSE IF ~counterparty_matches(Unwrap(source_channel_end), counterparty)
       THEN Err([kind |-> "InvalidPacketCounterparty",
                 port_id |-> packet.destination_port,
                 channel_id |-> packet.destination_channel])
       ELSE send_packet_client(c, packet, Unwrap(source_channel_end))

\* send_packet comparing only the port of the counterparty with the packet's
send_packet_counterparty_port_only(c, packet) ==
    LET source_channel_end ==
            channel_end(c, <<packet.source_port, packet.source_channel>>)
        cap == authenticated_capability(c, packet.source_port)
    IN IF source_channel_end = NoneV
       THEN Err([kind |-> "ChannelNotFound", port_id |-> packet.source_port,
                 channel_id |-> packet.source_channel])
       ELSE IF state_matches(Unwrap(source_channel_end), "Closed")
       THEN Err([kind |-> "ChannelClosed", channel_id |-> packet.source_channel])
       ELSE IF ~cap.ok THEN cap
       ELSE IF Unwrap(source_channel_end).remote.port_id # packet.destination_port
       THEN Err([kind |-> "InvalidPacketCounterparty",
                 port_id |-> packet.destination_port,
                 channel_id |-> packet.destination_channel])
       ELSE send_packet_client(c, packet, Unwrap(source_channel_end))

send_packet(c, packet) ==
    LET source_channel_end ==
            channel_end(c, <<packet.source_port, packet.source_channel>>)
        cap == authenticated_capability(c, packet.source_port)
        counterparty == ChannelCounterparty(packet.destination_port,
                                            Some(packet.destination_channel))
    IN IF source_channel_end = NoneV
       THEN Err([kind |-> "ChannelNotFound", port_id |-> packet.source_port,
                 channel_id |-> packet.source_channel])
       ELSE IF state_matches(Unwrap(source_channel_end), "Closed")
       THEN Err([kind |-> "ChannelClosed", channel_id |-> packet.source_channel])
       ELSE IF ~cap.ok THEN cap
       ELSE IF ~counterparty_matches(Unwrap(source_channel_end), counterparty)
       THEN Err([kind |-> "InvalidPacketCounterparty",
                 port_id |-> packet.destination_port,
                 channel_id |-> packet.destination_channel])
       ELSE send_packet_client(c, packet, Unwrap(source_channel_end))

(***************************************************************************)
(* ICS-02 client messages and handlers.                                    *)
(***************************************************************************)
\* the supported light-client schemes
ClientTypes == {"Mock", "Tendermint"}

AnyHeader(ctype, header) == [type |-> ctype, header |-> header]

TendermintClientState(header, frozen) ==
    [type |-> "Tendermint", header |-> header, frozen |-> frozen]

TendermintConsensusState(header) == [type |-> "Tendermint", header |-> header]

MsgCreateAnyClient_new_unchecked(cs, cons, signer) ==
    Ok([client_state |-> cs, consensus_state |-> cons, signer |-> signer])

MsgCreateAnyClient_new_swapped(cs, cons, signer) ==
    IF client_type(cs) # client_type(cons)
    THEN Err([kind |-> "RawClientAndConsensusStateTypesMismatch",
              state_type |-> client_type(cons), consensus_type |-> client_type(cs)])
    ELSE Ok([client_state |-> cs, consensus_state |-> cons, signer |-> signer])

MsgCreateAnyClient_new(cs, cons, signer) ==
    IF client_type(cs) # client_type(cons)
    THEN Err([kind |-> "RawClientAndConsensusStateTypesMismatch",
              state_type |-> client_type(cs), consensus_type |-> client_type(cons)])
    ELSE Ok([client_state |-> cs, consensus_state |-> cons, signer |-> signer])

RawMsgCreateClient(cs, cons, signer) ==
    [client_state |-> cs, consensus_state |-> cons, signer |-> signer]

\* TryFrom<Any> for AnyClientState and for AnyConsensusState: a state of a
\* supported scheme, or an error
AnyClientState_try_from(raw) ==
    IF raw.type \in ClientTypes THEN Ok(raw)
    ELSE Err([kind |-> "UnknownClientStateType", type |-> raw.type])

AnyConsensusState_try_from(raw) ==
    IF raw.type \in ClientTypes THEN Ok(raw)
    ELSE Err([kind |-> "UnknownConsensusStateType", type |-> raw.type])

\* TryFrom<RawMsgCreateClient> for MsgCreateAnyClient
MsgCreateAnyClient_try_from(raw) ==
    IF raw.client_state = NoneV
    THEN Err([kind |-> "InvalidRawClientState", context |-> "missing client state"])
    ELSE IF raw.consensus_state = NoneV
    THEN Err([kind |-> "InvalidRawConsensusState", context |-> "missing consensus state"])
    ELSE IF ~AnyClientState_try_from(Unwrap(raw.client_state)).ok
    THEN Err([kind |-> "InvalidRawClientState",
              context |-> AnyClientState_try_from(Unwrap(raw.client_state)).err])
    ELSE IF ~AnyConsensusState_try_from(Unwrap(raw.consensus_state)).ok
    THEN Err([kind |-> "InvalidRawConsensusState",
              context |-> AnyConsensusState_try_from(Unwrap(raw.consensus_state)).err])
    ELSE MsgCreateAnyClient_new(AnyClientState_try_from(Unwrap(raw.client_state)).val,
                                AnyConsensusState_try_from(Unwrap(raw.consensus_state)).val,
                                raw.signer)

\* From<MsgCreateAnyClient> for RawMsgCreateClient
RawMsgCreateClient_from(msg) ==
    RawMsgCreateClient(Some(msg.client_state), Some(msg.consensus_state), msg.signer)

MsgUpdateAnyClient(client_id, header, signer) ==
    [client_id |-> client_id, header |-> header, signer |-> signer]

MockClient_check_header_and_update_state_replay(cs, header) ==
    IF HeightLE(header.height, latest_height(cs)) /\ header.height # latest_height(cs)
    THEN Err("received header height is lower than (or equal to) client latest height")
    ELSE Ok(<<MockClientState(header), MockConsensusState(header)>>)

MockClient_check_header_and_update_state(cs, header) ==
    IF HeightLE(header.height, latest_height(cs))
    THEN Err("received header height is lower than (or equal to) client latest height")
    ELSE Ok(<<MockClientState(header), MockConsensusState(header)>>)

TendermintClient_check_header_and_update_state(cs, header) ==
    IF HeightLE(header.height, latest_height(cs))
    THEN Err("received header height is lower than (or equal to) client latest height")
    ELSE Ok(<<TendermintClientState(header, cs.frozen), TendermintConsensusState(header)>>)

\* the eight verification functions of ClientDef
VerifyFunctions ==
    {"verify_client_consensus_state", "verify_connection_state",
     "verify_channel_state", "verify_client_full_state", "verify_packet_data",
     "verify_packet_acknowledgement", "verify_next_sequence_recv",
     "verify_packet_receipt_absence"}

\* MockClient verifies everything
MockClient_verify(fn, cs) == Ok(<<>>)

TendermintClient_verify(fn, cs) == Err("proof verification failed")

\* what the arm of scheme def of AnyClient's function fn forwards to: the
\* function fn of that scheme's client, on the downcast arguments
ClientDef_forward(fn, def, cs, header) ==
    IF fn = "check_header_and_update_state"
    THEN IF def = "Mock"
         THEN MockClient_check_header_and_update_state(cs, header.header)
         ELSE TendermintClient_check_header_and_update_state(cs, header.header)
    ELSE IF def = "Mock" THEN MockClient_verify(fn, cs)
    ELSE TendermintClient_verify(fn, cs)

\* AnyClient's downcast of the arguments of fn to the scheme def: the client
\* state only, for a verification function
AnyClient_call_state_only(fn, def, cs, header) ==
    IF ~(cs.type = def)
    THEN [calls |-> <<>>,
          result |-> Err([kind |-> "ClientArgsTypeMismatch", client_type |-> def])]
    ELSE [calls |-> <<[client |-> def, fn |-> fn]>>,
          result |-> ClientDef_forward(fn, def, cs, header)]

\* impl ClientDef for AnyClient: every function downcasts its arguments to
\* the client's scheme, fails with ClientArgsTypeMismatch before anything is
\* called when one is of another scheme, and forwards otherwise; `calls`
\* lists the scheme verifiers called
AnyClient_call(fn, def, cs, header) ==
    IF ~(cs.type = def /\ (fn = "check_header_and_update_state" => header.type = def))
    THEN [calls |-> <<>>,
          result |-> Err([kind |-> "ClientArgsTypeMismatch", client_type |-> def])]
    ELSE [calls |-> <<[client |-> def, fn |-> fn]>>,
          result |-> ClientDef_forward(fn, def, cs, header)]

AnyClient_check_header_and_update_state(def, cs, header) ==
    AnyClient_call("check_header_and_update_state", def, cs, header).result

create_client_process(c, msg) ==
    LET id_counter == client_counter(c)
        client_id == ClientId(client_type(msg.client_state), id_counter)
    IN Ok(HandlerOutput(
            [type |-> "Create", client_id |-> client_id,
             client_type |-> client_type(msg.client_state),
             client_state |-> msg.client_state,
             consensus_state |-> msg.consensus_state],
            <<[kind |-> "CreateClient", client_id |-> client_id,
               client_type |-> client_type(msg.client_state),
               consensus_height |-> latest_height(msg.client_state)]>>,
            <<"success: generated new client identifier">>))

update_client_process(c, msg) ==
    LET ctype == reader_client_type(c, msg.client_id)
        cs == client_state(c, msg.client_id)
    IN IF ctype = NoneV \/ cs = NoneV
       THEN Err([kind |-> "ClientNotFound", client_id |-> msg.client_id])
       ELSE IF consensus_state(c, msg.client_id, latest_height(Unwrap(cs))) = NoneV
       THEN Err([kind |-> "ConsensusStateNotFound", client_id |-> msg.client_id,
                 height |-> latest_height(Unwrap(cs))])
       ELSE LET r == AnyClient_check_header_and_update_state(
                         Unwrap(ctype), Unwrap(cs), msg.header)
            IN IF ~r.ok
               THEN Err([kind |-> "HeaderVerificationFailure", source |-> r.err])
               ELSE Ok(HandlerOutput(
                        [type |-> "Update", client_id |-> msg.client_id,
                         client_state |-> r.val[1], consensus_state |-> r.val[2]],
                        <<[kind |-> "UpdateClient", client_id |-> msg.client_id,
                           client_type |-> Unwrap(ctype),
                           consensus_height |-> latest_height(r.val[1])]>>,
                        <<"success: client updated">>))

ics2_msg_dispatcher(c, msg) ==
    IF msg.variant = "CreateClient" THEN create_client_process(c, msg.msg)
    ELSE update_client_process(c, msg.msg)

store_client_result(c, res) ==
    IF res.type = "Create"
    THEN LET c1 == store_client_type(c, res.client_id, res.client_type)
             c2 == store_client_state(c1, res.client_id, res.client_state)
             c3 == store_consensus_state(c2, res.client_id,
                       latest_height(res.client_state), res.consensus_state)
         IN Ok(increase_client_counter(c3))
    ELSE LET c1 == store_client_state(c, res.client_id, res.client_state)
         IN Ok(store_consensus_state(c1, res.client_id,
                   latest_height(res.client_state), res.consensus_state))

\* the verification a handler asks of the client of scheme def: the eight
\* verify_* functions treat the client state alike
AnyClient_verify(def, cs) ==
    AnyClient_call("verify_connection_state", def, cs, NoneV).result

\* the verification of a proof taken at proof_height, by the client client_id
verify_proofs(c, client_id, proof_height) ==
    LET cs == client_state(c, client_id)
    IN IF cs = NoneV THEN Err([kind |-> "MissingClient", client_id |-> client_id])
       ELSE IF is_frozen(Unwrap(cs))
       THEN Err([kind |-> "FrozenClient", client_id |-> client_id])
       ELSE IF consensus_state(c, client_id, proof_height) = NoneV
       THEN Err([kind |-> "MissingClientConsensusState", client_id |-> client_id,
                 height |-> proof_height])
       ELSE LET v == AnyClient_verify(Unwrap(reader_client_type(c, client_id)),
                                      Unwrap(cs))
            IN IF v.ok THEN v ELSE Err([kind |-> "InvalidProof", source |-> v.err])

(***************************************************************************)
(* ICS-03 connection handshake.                                            *)
(***************************************************************************)
\* the versions this chain supports
get_compatible_versions == <<"1">>

\* the first supported version the counterparty also supports
pick_version(supported_versions, counterparty_versions) ==
    LET common == SelectSeq(supported_versions,
                            LAMBDA v : \E i \in DOMAIN counterparty_versions :
                                           counterparty_versions[i] = v)
    IN IF common = <<>> THEN Err([kind |-> "NoCommonVersion"]) ELSE Ok(Head(common))

\* the result of a connection handler
ConnectionResult(connection_id, connection_id_state, conn_end) ==
    [connection_id |-> connection_id, connection_id_state |-> connection_id_state,
     connection_end |-> conn_end]

\* the consensus height a message claims must not be above the host's height
check_client_consensus_height(c, claimed_height) ==
    IF ~HeightLE(claimed_height, host_height(c))
    THEN Err([kind |-> "InvalidConsensusHeight", claimed |-> claimed_height,
              host |-> host_height(c)])
    ELSE Ok(<<>>)

conn_open_init_process(c, msg) ==
    LET id == ConnectionId(connection_counter(c))
        new_connection_end ==
            [ConnectionEnd("Init", msg.client_id, msg.counterparty)
                 EXCEPT !.versions = <<msg.version>>, !.delay_period = msg.delay_period]
    IN IF client_state(c, msg.client_id) = NoneV
       THEN Err([kind |-> "MissingClient", client_id |-> msg.client_id])
       ELSE Ok(HandlerOutput(ConnectionResult(id, "Generated", new_connection_end),
                  <<[kind |-> "OpenInitConnection", connection_id |-> id,
                     height |-> host_height(c)]>>,
                  <<"success: no connection found">>))

conn_open_try_process(c, msg) ==
    LET height_ok == check_client_consensus_height(c, msg.consensus_height)
        reused == IsSome(msg.previous_connection_id)
        id == IF reused THEN Unwrap(msg.previous_connection_id)
              ELSE ConnectionId(connection_counter(c))
        old == connection_end(c, id)
        version == pick_version(get_compatible_versions, msg.counterparty_versions)
        proof == verify_proofs(c, msg.client_id, msg.proofs.height)
    IN IF ~height_ok.ok THEN height_ok
       ELSE IF reused /\ old = NoneV
       THEN Err([kind |-> "ConnectionNotFound", connection_id |-> id])
       ELSE IF reused /\ ~(/\ Unwrap(old).state = "Init"
                           /\ Unwrap(old).client_id = msg.client_id
                           /\ Unwrap(old).counterparty = msg.counterparty
                           /\ Unwrap(old).delay_period = msg.delay_period)
       THEN Err([kind |-> "ConnectionMismatch", connection_id |-> id])
       ELSE IF ~proof.ok THEN proof
       ELSE IF ~version.ok THEN version
       ELSE Ok(HandlerOutput(
                  ConnectionResult(id, IF reused THEN "Reused" ELSE "Generated",
                      [ConnectionEnd("TryOpen", msg.client_id, msg.counterparty)
                           EXCEPT !.versions = <<version.val>>,
                                  !.delay_period = msg.delay_period]),
                  <<[kind |-> "OpenTryConnection", connection_id |-> id,
                     height |-> host_height(c)]>>,
                  <<"success: connection verification passed">>))

conn_open_ack_process(c, msg) ==
    LET height_ok == check_client_consensus_height(c, msg.consensus_height)
        old == connection_end(c, msg.connection_id)
        proof == verify_proofs(c, Unwrap(old).client_id, msg.proofs.height)
    IN IF ~height_ok.ok THEN height_ok
       ELSE IF old = NoneV
       THEN Err([kind |-> "ConnectionNotFound", connection_id |-> msg.connection_id])
       ELSE IF ~(\/ Unwrap(old).state = "Init"
                 \/ /\ Unwrap(old).state = "TryOpen"
                    /\ Unwrap(old).versions = <<msg.version>>)
       THEN Err([kind |-> "ConnectionMismatch", connection_id |-> msg.connection_id])
       ELSE IF ~proof.ok THEN proof
       ELSE Ok(HandlerOutput(
                  ConnectionResult(msg.connection_id, "Reused",
                      [Unwrap(old) EXCEPT
                           !.state = "Open",
                           !.versions = <<msg.version>>,
                           !.counterparty.connection_id =
                               Some(msg.counterparty_connection_id)]),
                  <<[kind |-> "OpenAckConnection", connection_id |-> msg.connection_id,
                     height |-> host_height(c)]>>,
                  <<"success: connection verification passed">>))

conn_open_confirm_process(c, msg) ==
    LET old == connection_end(c, msg.connection_id)
        proof == verify_proofs(c, Unwrap(old).client_id, msg.proofs.height)
    IN IF old = NoneV
       THEN Err([kind |-> "ConnectionNotFound", connection_id |-> msg.connection_id])
       ELSE IF Unwrap(old).state # "TryOpen"
       THEN Err([kind |-> "ConnectionMismatch", connection_id |-> msg.connection_id])
       ELSE IF ~proof.ok THEN proof
       ELSE Ok(HandlerOutput(
                  ConnectionResult(msg.connection_id, "Reused",
                                   [Unwrap(old) EXCEPT !.state = "Open"]),
                  <<[kind |-> "OpenConfirmConnection",
                     connection_id |-> msg.connection_id, height |-> host_height(c)]>>,
                  <<"success: connection verification passed">>))

ics3_msg_dispatcher(c, msg) ==
    CASE msg.variant = "ConnectionOpenInit" -> conn_open_init_process(c, msg.msg)
      [] msg.variant = "ConnectionOpenTry" -> conn_open_try_process(c, msg.msg)
      [] msg.variant = "ConnectionOpenAck" -> conn_open_ack_process(c, msg.msg)
      [] msg.variant = "ConnectionOpenConfirm" -> conn_open_confirm_process(c, msg.msg)

store_connection_result(c, result) ==
    LET c1 == store_connection(c, result.connection_id, result.connection_end)
    IN IF result.connection_id_state = "Generated"
       THEN Ok(store_connection_to_client(increase_connection_counter(c1),
                   result.connection_id, result.connection_end.client_id))
       ELSE Ok(c1)

(***************************************************************************)
(* ICS-04 channel handshake.                                               *)
(***************************************************************************)
\* the result of a channel handler
ChannelResult(port_id, channel_id, channel_id_state, chan_end) ==
    [port_id |-> port_id, channel_id |-> channel_id,
     channel_id_state |-> channel_id_state, channel_end |-> chan_end]

\* the connection a channel runs over: it must exist and be Open, and its
\* client must not be frozen
\* the lookup without its checks: a connection that is absent passes for an
\* open one of the default client
channel_connection_unchecked(c, connection_hops) ==
    LET conn == connection_end(c, connection_hops[1])
    IN IF conn = NoneV
       THEN Ok(ConnectionEnd("Open", DefaultClientId,
                             ConnectionCounterparty(DefaultClientId,
                                                    Some(DefaultConnectionId))))
       ELSE Ok(Unwrap(conn))

channel_connection(c, connection_hops) ==
    LET conn == connection_end(c, connection_hops[1])
        cs == client_state(c, Unwrap(conn).client_id)
    IN IF Len(connection_hops) # 1
       THEN Err([kind |-> "InvalidConnectionHopsLength"])
       ELSE IF conn = NoneV
       THEN Err([kind |-> "MissingConnection", connection_id |-> connection_hops[1]])
       ELSE IF Unwrap(conn).state # "Open"
       THEN Err([kind |-> "ConnectionNotOpen", connection_id |-> connection_hops[1]])
       ELSE IF cs # NoneV /\ is_frozen(Unwrap(cs))
       THEN Err([kind |-> "FrozenClient", client_id |-> Unwrap(conn).client_id])
       ELSE Ok(Unwrap(conn))

chan_open_init_process(c, msg) ==
    LET cap == authenticated_capability(c, msg.port_id)
        conn == channel_connection(c, msg.channel.connection_hops)
        id == ChannelId(channel_counter(c))
    IN IF ~cap.ok THEN cap
       ELSE IF ~conn.ok THEN conn
       ELSE Ok(HandlerOutput(
                  ChannelResult(msg.port_id, id, "Generated",
                                [msg.channel EXCEPT !.state = "Init"]),
                  <<[kind |-> "OpenInitChannel", port_id |-> msg.port_id,
                     channel_id |-> id, height |-> host_height(c)]>>,
                  <<"success: no channel found">>))

chan_open_try_process(c, msg) ==
    LET reused == IsSome(msg.previous_channel_id)
        id == IF reused THEN Unwrap(msg.previous_channel_id)
              ELSE ChannelId(channel_counter(c))
        old == channel_end(c, <<msg.port_id, id>>)
        cap == authenticated_capability(c, msg.port_id)
        conn == channel_connection(c, msg.channel.connection_hops)
        proof == verify_proofs(c, conn.val.client_id, msg.proofs.height)
        version == IF msg.counterparty_version = "" THEN msg.channel.version
                   ELSE msg.counterparty_version
    IN IF reused /\ old = NoneV
       THEN Err([kind |-> "ChannelNotFound", port_id |-> msg.port_id,
                 channel_id |-> id])
       ELSE IF reused /\ ~(/\ Unwrap(old).state = "Init"
                           /\ Unwrap(old).ordering = msg.channel.ordering
                           /\ Unwrap(old).remote = msg.channel.remote
                           /\ Unwrap(old).connection_hops = msg.channel.connection_hops
                           /\ Unwrap(old).version = msg.channel.version)
       THEN Err([kind |-> "ChannelMismatch", channel_id |-> id])
       ELSE IF ~cap.ok THEN cap
       ELSE IF ~conn.ok THEN conn
       ELSE IF ~proof.ok THEN proof
       ELSE Ok(HandlerOutput(
                  ChannelResult(msg.port_id, id,
                                IF reused THEN "Reused" ELSE "Generated",
                                [msg.channel EXCEPT !.state = "TryOpen",
                                                    !.version = version]),
                  <<[kind |-> "OpenTryChannel", port_id |-> msg.port_id,
                     channel_id |-> id, height |-> host_height(c)]>>,
                  <<"success: channel open try ">>))

\* the handler without its check of the channel's state
chan_open_ack_process_any_state(c, msg) ==
    LET old == channel_end(c, <<msg.port_id, msg.channel_id>>)
        cap == authenticated_capability(c, msg.port_id)
        conn == channel_connection(c, Unwrap(old).connection_hops)
        proof == verify_proofs(c, conn.val.client_id, msg.proofs.height)
    IN IF old = NoneV
       THEN Err([kind |-> "ChannelNotFound", port_id |-> msg.port_id,
                 channel_id |-> msg.channel_id])
       ELSE IF ~cap.ok THEN cap
       ELSE IF ~conn.ok THEN conn
       ELSE IF ~proof.ok THEN proof
       ELSE Ok(HandlerOutput(
                  ChannelResult(msg.port_id, msg.channel_id, "Reused",
                      [Unwrap(old) EXCEPT
                           !.state = "Open",
                           !.remote.channel_id = Some(msg.counterparty_channel_id),
                           !.version = IF msg.counterparty_version = "" THEN @
                                       ELSE msg.counterparty_version]),
                  <<[kind |-> "OpenAckChannel", port_id |-> msg.port_id,
                     channel_id |-> msg.channel_id, height |-> host_height(c)]>>,
                  <<"success: channel open ack ">>))

chan_open_ack_process(c, msg) ==
    LET old == channel_end(c, <<msg.port_id, msg.channel_id>>)
        cap == authenticated_capability(c, msg.port_id)
        conn == channel_connection(c, Unwrap(old).connection_hops)
        proof == verify_proofs(c, conn.val.client_id, msg.proofs.height)
    IN IF old = NoneV
       THEN Err([kind |-> "ChannelNotFound", port_id |-> msg.port_id,
                 channel_id |-> msg.channel_id])
       ELSE IF Unwrap(old).state \notin {"Init", "TryOpen"}
       THEN Err([kind |-> "InvalidChannelState", channel_id |-> msg.channel_id,
                 state |-> Unwrap(old).state])
       ELSE IF ~cap.ok THEN cap
       ELSE IF ~conn.ok THEN conn
       ELSE IF ~proof.ok THEN proof
       ELSE Ok(HandlerOutput(
                  ChannelResult(msg.port_id, msg.channel_id, "Reused",
                      [Unwrap(old) EXCEPT
                           !.state = "Open",
                           !.remote.channel_id = Some(msg.counterparty_channel_id),
                           !.version = IF msg.counterparty_version = "" THEN @
                                       ELSE msg.counterparty_version]),
                  <<[kind |-> "OpenAckChannel", port_id |-> msg.port_id,
                     channel_id |-> msg.channel_id, height |-> host_height(c)]>>,
                  <<"success: channel open ack ">>))

chan_open_confirm_process(c, msg) ==
    LET old == channel_end(c, <<msg.port_id, msg.channel_id>>)
        cap == authenticated_capability(c, msg.port_id)
        conn == channel_connection(c, Unwrap(old).connection_hops)
        proof == verify_proofs(c, conn.val.client_id, msg.proofs.height)
    IN IF old = NoneV
       THEN Err([kind |-> "ChannelNotFound", port_id |-> msg.port_id,
                 channel_id |-> msg.channel_id])
       ELSE IF Unwrap(old).state # "TryOpen"
       THEN Err([kind |-> "InvalidChannelState", channel_id |-> msg.channel_id,
                 state |-> Unwrap(old).state])
       ELSE IF ~cap.ok THEN cap
       ELSE IF ~conn.ok THEN conn
       ELSE IF ~proof.ok THEN proof
       ELSE Ok(HandlerOutput(
                  ChannelResult(msg.port_id, msg.channel_id, "Reused",
                                [Unwrap(old) EXCEPT !.state = "Open"]),
                  <<[kind |-> "OpenConfirmChannel", port_id |-> msg.port_id,
                     channel_id |-> msg.channel_id, height |-> host_height(c)]>>,
                  <<"success: channel open confirm ">>))

chan_close_init_process(c, msg) ==
    LET old == channel_end(c, <<msg.port_id, msg.channel_id>>)
        cap == authenticated_capability(c, msg.port_id)
        conn == channel_connection(c, Unwrap(old).connection_hops)
    IN IF old = NoneV
       THEN Err([kind |-> "ChannelNotFound", port_id |-> msg.port_id,
                 channel_id |-> msg.channel_id])
       ELSE IF Unwrap(old).state # "Open"
       THEN Err([kind |-> "InvalidChannelState", channel_id |-> msg.channel_id,
                 state |-> Unwrap(old).state])
       ELSE IF ~cap.ok THEN cap
       ELSE IF ~conn.ok THEN conn
       ELSE Ok(HandlerOutput(
                  ChannelResult(msg.port_id, msg.channel_id, "Reused",
                                [Unwrap(old) EXCEPT !.state = "Closed"]),
                  <<[kind |-> "CloseInitChannel", port_id |-> msg.port_id,
                     channel_id |-> msg.channel_id, height |-> host_height(c)]>>,
                  <<"success: channel close init ">>))

chan_close_confirm_process(c, msg) ==
    LET old == channel_end(c, <<msg.port_id, msg.channel_id>>)
        cap == authenticated_capability(c, msg.port_id)
        conn == channel_connection(c, Unwrap(old).connection_hops)
        proof == verify_proofs(c, conn.val.client_id, msg.proofs.height)
    IN IF old = NoneV
       THEN Err([kind |-> "ChannelNotFound", port_id |-> msg.port_id,
                 channel_id |-> msg.channel_id])
       ELSE IF Unwrap(old).state # "Open"
       THEN Err([kind |-> "InvalidChannelState", channel_id |-> msg.channel_id,
                 state |-> Unwrap(old).state])
       ELSE IF ~cap.ok THEN cap
       ELSE IF ~conn.ok THEN conn
       ELSE IF ~proof.ok THEN proof
       ELSE Ok(HandlerOutput(
                  ChannelResult(msg.port_id, msg.channel_id, "Reused",
                                [Unwrap(old) EXCEPT !.state = "Closed"]),
                  <<[kind |-> "CloseConfirmChannel", port_id |-> msg.port_id,
                     channel_id |-> msg.channel_id, height |-> host_height(c)]>>,
                  <<"success: channel close confirm ">>))

ics4_msg_dispatcher(c, msg) ==
    CASE msg.variant = "ChannelOpenInit" -> chan_open_init_process(c, msg.msg)
      [] msg.variant = "ChannelOpenTry" -> chan_open_try_process(c, msg.msg)
      [] msg.variant = "ChannelOpenAck" -> chan_open_ack_process(c, msg.msg)
      [] msg.variant = "ChannelOpenConfirm" -> chan_open_confirm_process(c, msg.msg)
      [] msg.variant = "ChannelCloseInit" -> chan_close_init_process(c, msg.msg)
      [] msg.variant = "ChannelCloseConfirm" -> chan_close_confirm_process(c, msg.msg)

store_channel_result(c, result) ==
    LET pc == <<result.port_id, result.channel_id>>
        c1 == store_channel(c, pc, result.channel_end)
    IN IF result.channel_id_state = "Generated"
       THEN Ok(store_next_sequence_ack(
                   store_next_sequence_recv(
                       store_next_sequence_send(
                           store_connection_channels(
                               increase_channel_counter(c1),
                               result.channel_end.connection_hops[1], pc),
                           pc, 1),
                       pc, 1),
                   pc, 1))
       ELSE Ok(c1)

(***************************************************************************)
(* ICS-20 transfer: the application hook through which packets are sent.   *)
(***************************************************************************)
MsgTransfer(source_port, source_channel, timeout_height, timeout_timestamp) ==
    [source_port |-> source_port,
     source_channel |-> source_channel, timeout_height |-> timeout_height,
     timeout_timestamp |-> timeout_timestamp]

send_transfer(c, msg) ==
    LET pc == <<msg.source_port, msg.source_channel>>
        source_channel_end == channel_end(c, pc)
        sequence == get_next_sequence_send(c, pc)
    IN IF source_channel_end = NoneV
       THEN Err([kind |-> "ChannelNotFound", port_id |-> msg.source_port,
                 channel_id |-> msg.source_channel])
       ELSE IF Unwrap(source_channel_end).remote.channel_id = NoneV
       THEN Err([kind |-> "DestinationChannelNotFound", port_id |-> msg.source_port,
                 channel_id |-> msg.source_channel])
       ELSE IF sequence = NoneV
       THEN Err([kind |-> "SequenceSendNotFound", port_id |-> msg.source_port,
                 channel_id |-> msg.source_channel])
       ELSE LET packet == Packet(Unwrap(sequence), msg.source_port, msg.source_channel,
                                 Unwrap(source_channel_end).remote.port_id,
                                 Unwrap(Unwrap(source_channel_end).remote.channel_id),
                                 msg.timeout_height, msg.timeout_timestamp)
                out == send_packet(c, packet)
            IN IF ~out.ok THEN Err([kind |-> "HandlerRaisedError", source |-> out.err])
               ELSE out

(***************************************************************************)
(* ICS-04 packets: receive, acknowledge, time out.                         *)
(***************************************************************************)
\* the channel end a packet message is about, on the side `port_id`,
\* `channel_id` of the packet, whose other side must be the channel's
\* counterparty, over a connection that is Open with a client not frozen
packet_channel(c, port_id, channel_id, other_port, other_channel, states) ==
    LET chan == channel_end(c, <<port_id, channel_id>>)
        conn == channel_connection(c, Unwrap(chan).connection_hops)
    IN IF chan = NoneV
       THEN Err([kind |-> "ChannelNotFound", port_id |-> port_id,
                 channel_id |-> channel_id])
       ELSE IF Unwrap(chan).state \notin states
       THEN Err([kind |-> "InvalidChannelState", channel_id |-> channel_id,
                 state |-> Unwrap(chan).state])
       ELSE IF ~counterparty_matches(Unwrap(chan),
                                     ChannelCounterparty(other_port, Some(other_channel)))
       THEN Err([kind |-> "InvalidPacketCounterparty", port_id |-> other_port,
                 channel_id |-> other_channel])
       ELSE IF ~conn.ok THEN conn
       ELSE Ok([channel |-> Unwrap(chan), client_id |-> conn.val.client_id])

\* the commitment stored for a packet sent must be the one of this packet
check_packet_commitment(c, packet) ==
    LET key == <<packet.source_port, packet.source_channel, packet.sequence>>
        stored == get_packet_commitment(c, key)
    IN IF stored = NoneV
       THEN Err([kind |-> "PacketCommitmentNotFound", sequence |-> packet.sequence])
       ELSE IF Unwrap(stored) # hash(<<packet.timeout_timestamp, packet.timeout_height,
                                       packet.data>>)
       THEN Err([kind |-> "IncorrectPacketCommitment", sequence |-> packet.sequence])
       ELSE Ok(<<>>)

recv_packet_process(c, msg) ==
    LET packet == msg.packet
        pc == <<packet.destination_port, packet.destination_channel>>
        chan == packet_channel(c, pc[1], pc[2], packet.source_port,
                               packet.source_channel, {"Open"})
        proof == verify_proofs(c, chan.val.client_id, msg.proofs.height)
        ordered == chan.val.channel.ordering = "Ordered"
        next_seq_recv == get_next_sequence_recv(c, pc)
        result == [type |-> "Recv", port_id |-> pc[1], channel_id |-> pc[2],
                   seq |-> packet.sequence,
                   seq_number |-> IF ordered
                                  THEN SequenceIncrement(Unwrap(next_seq_recv)) ELSE 1,
                   receipt |-> IF ordered THEN NoneV ELSE Some("Ok")]
    IN IF ~chan.ok THEN chan
       ELSE IF ~proof.ok THEN proof
       ELSE IF \/ /\ ~HeightIsZero(packet.timeout_height)
                  /\ HeightLE(packet.timeout_height, host_height(c))
               \/ /\ packet.timeout_timestamp # TimestampNone
                  /\ host_timestamp(c) # TimestampNone
                  /\ host_timestamp(c) >= packet.timeout_timestamp
       THEN Err([kind |-> "PacketTimeout", timeout_height |-> packet.timeout_height,
                 timeout_timestamp |-> packet.timeout_timestamp])
       ELSE IF ordered /\ next_seq_recv = NoneV
       THEN Err([kind |-> "MissingNextRecvSeq"])
       ELSE IF ordered /\ packet.sequence # Unwrap(next_seq_recv)
       THEN Err([kind |-> "InvalidPacketSequence", sequence |-> packet.sequence,
                 next_seq_recv |-> Unwrap(next_seq_recv)])
       ELSE IF ~ordered /\ IsSome(get_packet_receipt(c, <<pc[1], pc[2], packet.sequence>>))
       THEN Err([kind |-> "PacketReceived", sequence |-> packet.sequence])
       ELSE Ok(HandlerOutput(result,
                  <<[kind |-> "ReceivePacket", height |-> host_height(c),
                     packet |-> packet]>>,
                  <<"success: packet receive">>))

ack_packet_process(c, msg) ==
    LET packet == msg.packet
        pc == <<packet.source_port, packet.source_channel>>
        chan == packet_channel(c, pc[1], pc[2], packet.destination_port,
                               packet.destination_channel, {"Open"})
        commitment == check_packet_commitment(c, packet)
        proof == verify_proofs(c, chan.val.client_id, msg.proofs.height)
        ordered == chan.val.channel.ordering = "Ordered"
        next_seq_ack == get_next_sequence_ack(c, pc)
    IN IF ~chan.ok THEN chan
       ELSE IF ~commitment.ok THEN commitment
       ELSE IF ~proof.ok THEN proof
       ELSE IF ordered /\ next_seq_ack = NoneV
       THEN Err([kind |-> "MissingNextAckSeq"])
       ELSE IF ordered /\ packet.sequence # Unwrap(next_seq_ack)
       THEN Err([kind |-> "InvalidPacketSequence", sequence |-> packet.sequence,
                 next_seq_ack |-> Unwrap(next_seq_ack)])
       ELSE Ok(HandlerOutput(
                  [type |-> "Ack", port_id |-> pc[1], channel_id |-> pc[2],
                   seq |-> packet.sequence,
                   seq_number |-> IF ordered
                                  THEN Some(SequenceIncrement(Unwrap(next_seq_ack)))
                                  ELSE NoneV],
                  <<[kind |-> "AcknowledgePacket", height |-> host_height(c),
                     packet |-> packet]>>,
                  <<"success: packet ack">>))

\* the result of a timeout: the commitment goes, an ordered channel closes
TimeoutPacketResult(packet, chan) ==
    [type |-> "Timeout", port_id |-> packet.source_port,
     channel_id |-> packet.source_channel, seq |-> packet.sequence,
     channel |-> IF chan.ordering = "Ordered"
                 THEN Some([chan EXCEPT !.state = "Closed"]) ELSE NoneV]

timeout_packet_process(c, msg) ==
    LET packet == msg.packet
        chan == packet_channel(c, packet.source_port, packet.source_channel,
                               packet.destination_port, packet.destination_channel,
                               {"Open"})
        commitment == check_packet_commitment(c, packet)
        proof == verify_proofs(c, chan.val.client_id, msg.proofs.height)
        cons == Unwrap(consensus_state(c, chan.val.client_id, msg.proofs.height))
        reached == \/ /\ ~HeightIsZero(packet.timeout_height)
                      /\ HeightLE(packet.timeout_height, msg.proofs.height)
                   \/ /\ packet.timeout_timestamp # TimestampNone
                      /\ timestamp(cons) # TimestampNone
                      /\ timestamp(cons) >= packet.timeout_timestamp
    IN IF ~chan.ok THEN chan
       ELSE IF ~commitment.ok THEN commitment
       ELSE IF ~proof.ok THEN proof
       ELSE IF ~reached
       THEN Err([kind |-> "PacketTimeoutNotReached",
                 timeout_height |-> packet.timeout_height,
                 proof_height |-> msg.proofs.height])
       ELSE IF chan.val.channel.ordering = "Ordered"
               /\ msg.next_sequence_recv > packet.sequence
       THEN Err([kind |-> "InvalidPacketSequence", sequence |-> packet.sequence,
                 next_seq_recv |-> msg.next_sequence_recv])
       ELSE Ok(HandlerOutput(TimeoutPacketResult(packet, chan.val.channel),
                  <<[kind |-> "TimeoutPacket", height |-> host_height(c),
                     packet |-> packet]>>,
                  <<"success: packet timeout ">>))

timeout_on_close_packet_process(c, msg) ==
    LET packet == msg.packet
        chan == packet_channel(c, packet.source_port, packet.source_channel,
                               packet.destination_port, packet.destination_channel,
                               {"Init", "TryOpen", "Open", "Closed"})
        commitment == check_packet_commitment(c, packet)
        proof == verify_proofs(c, chan.val.client_id, msg.proofs.height)
    IN IF ~chan.ok THEN chan
       ELSE IF ~commitment.ok THEN commitment
       ELSE IF ~proof.ok THEN proof
       ELSE IF chan.val.channel.ordering = "Ordered"
               /\ msg.next_sequence_recv > packet.sequence
       THEN Err([kind |-> "InvalidPacketSequence", sequence |-> packet.sequence,
                 next_seq_recv |-> msg.next_sequence_recv])
       ELSE Ok(HandlerOutput(TimeoutPacketResult(packet, chan.val.channel),
                  <<[kind |-> "TimeoutPacket", height |-> host_height(c),
                     packet |-> packet]>>,
                  <<"success: packet timeout ">>))

ics04_packet_msg_dispatcher(c, msg) ==
    CASE msg.variant = "RecvPacket" -> recv_packet_process(c, msg.msg)
      [] msg.variant = "AckPacket" -> ack_packet_process(c, msg.msg)
      [] msg.variant = "ToPacket" -> timeout_packet_process(c, msg.msg)
      [] msg.variant = "ToClosePacket" -> timeout_on_close_packet_process(c, msg.msg)

store_packet_result(c, res) ==
    LET pc == <<res.port_id, res.channel_id>>
        key == <<res.port_id, res.channel_id, res.seq>>
    IN CASE res.type = "Send" ->
                Ok(store_packet_commitment(
                       store_next_sequence_send(c, pc, res.seq_number),
                       key, res.timeout_timestamp, res.timeout_height, res.data))
         [] res.type = "Recv" ->
                IF res.receipt = NoneV
                THEN Ok(store_next_sequence_recv(c, pc, res.seq_number))
                ELSE Ok(store_packet_receipt(c, key, Unwrap(res.receipt)))
         [] res.type = "Ack" ->
                IF res.seq_number = NoneV THEN Ok(delete_packet_commitment(c, key))
                ELSE Ok(store_next_sequence_ack(delete_packet_commitment(c, key), pc,
                                                Unwrap(res.seq_number)))
         [] res.type = "Timeout" ->
                IF res.channel = NoneV THEN Ok(delete_packet_commitment(c, key))
                ELSE Ok(store_channel(delete_packet_commitment(c, key), pc,
                                      Unwrap(res.channel)))

(***************************************************************************)
(* ICS-26 routing: deliver and dispatch.                                   *)
(***************************************************************************)
\* the TYPE_URL constants of the message modules create_client, chan_open_try
\* and chan_open_ack
TYPE_URL ==
    [create_client |-> "/ibc.core.client.v1.MsgCreateClient",
     chan_open_try |-> "/ibc.core.channel.v1.MsgChannelOpenTry",
     chan_open_ack |-> "/ibc.core.channel.v1.MsgChannelOpenAck"]

\* the TYPE_URL constants of the other message modules deliver matches on
TYPE_URL_OF ==
    [update_client |-> "/ibc.core.client.v1.MsgUpdateClient",
     conn_open_init |-> "/ibc.core.connection.v1.MsgConnectionOpenInit",
     conn_open_try |-> "/ibc.core.connection.v1.MsgConnectionOpenTry",
     conn_open_ack |-> "/ibc.core.connection.v1.MsgConnectionOpenAck",
     conn_open_confirm |-> "/ibc.core.connection.v1.MsgConnectionOpenConfirm",
     chan_open_init |-> "/ibc.core.channel.v1.MsgChannelOpenInit",
     chan_open_confirm |-> "/ibc.core.channel.v1.MsgChannelOpenConfirm",
     chan_close_init |-> "/ibc.core.channel.v1.MsgChannelCloseInit",
     chan_close_confirm |-> "/ibc.core.channel.v1.MsgChannelCloseConfirm",
     transfer |-> "/ibc.applications.transfer.v1.MsgTransfer",
     recv_packet |-> "/ibc.core.channel.v1.MsgRecvPacket",
     acknowledgement |-> "/ibc.core.channel.v1.MsgAcknowledgement",
     timeout |-> "/ibc.core.channel.v1.MsgTimeout",
     timeout_on_close |-> "/ibc.core.channel.v1.MsgTimeoutOnClose"]

\* An Any: a type URL and the bytes of a raw message.  The bytes are kept as
\* the raw message they encode, tagged with its protobuf type; "garbage"
\* bytes encode nothing.
ProtoAny(type_url, value) == [type_url |-> type_url, value |-> value]

Bytes(proto, raw) == [proto |-> proto, raw |-> raw]

GarbageBytes == [proto |-> "garbage", raw |-> <<>>]

\* the wire decoding of the bytes into the raw message of type `proto`
prost_decode(proto, value) ==
    IF value.proto # proto THEN Err([kind |-> "DecodeError"])
    ELSE Ok(value.raw)

\* Proofs::new: the object proof must not be empty, the height not zero
Proofs_new(object_proof, height) ==
    IF object_proof = <<>> THEN Err("proof cannot be empty")
    ELSE IF HeightIsZero(height) THEN Err("proof height cannot be zero")
    ELSE Ok([object_proof |-> object_proof, height |-> height])

\* An identifier string is kept as the sequence of the identifiers it spells:
\* <<id>> spells id, the empty string <<>> and any longer sequence spell none.
to_string(id) == <<id>>

\* FromStr for identifiers
parse_identifier(str) ==
    IF Len(str) = 1 THEN Ok(str[1]) ELSE Err([kind |-> "IdentifierError"])

validate_version(version) == Ok(version)

\* TryFrom<RawChannel> for ChannelEnd
ChannelEnd_try_from(raw) ==
    IF raw.counterparty = NoneV THEN Err([kind |-> "MissingCounterparty"])
    ELSE Ok(ChannelEnd(raw.state, raw.ordering, Unwrap(raw.counterparty),
                       raw.connection_hops, raw.version))

\* str::trim on the version strings the raw messages carry
trim(version) ==
    CASE version = " " -> ""
      [] version = " ics20 " -> "ics20"
      [] OTHER -> version

\* the conversion with a validation that refuses a version empty after trim
MsgChannelOpenTry_try_from_trimmed_version(raw_msg) ==
    LET proofs == IF raw_msg.proof_height = NoneV THEN Err([kind |-> "MissingHeight"])
                  ELSE LET p == Proofs_new(raw_msg.proof_init,
                                           Unwrap(raw_msg.proof_height))
                       IN IF p.ok THEN p
                          ELSE Err([kind |-> "InvalidProof", source |-> p.err])
        previous_channel_id ==
            IF raw_msg.previous_channel_id = <<>> THEN Ok(NoneV)
            ELSE LET id == parse_identifier(raw_msg.previous_channel_id)
                 IN IF id.ok THEN Ok(Some(id.val)) ELSE id
        port_id == parse_identifier(raw_msg.port_id)
        channel == IF raw_msg.channel = NoneV THEN Err([kind |-> "MissingChannel"])
                   ELSE ChannelEnd_try_from(Unwrap(raw_msg.channel))
        counterparty_version ==
            IF trim(raw_msg.counterparty_version) = ""
            THEN Err([kind |-> "InvalidVersion"])
            ELSE Ok(raw_msg.counterparty_version)
    IN IF ~proofs.ok THEN proofs
       ELSE IF ~previous_channel_id.ok THEN previous_channel_id
       ELSE IF ~port_id.ok THEN port_id
       ELSE IF ~channel.ok THEN channel
       ELSE IF ~counterparty_version.ok THEN counterparty_version
       ELSE IF channel.val.remote.channel_id = NoneV
       THEN Err([kind |-> "InvalidCounterpartyChannelId"])
       ELSE Ok([port_id |-> port_id.val,
                previous_channel_id |-> previous_channel_id.val,
                channel |-> channel.val,
                counterparty_version |-> counterparty_version.val,
                proofs |-> proofs.val, signer |-> raw_msg.signer])

\* TryFrom<RawMsgChannelOpenTry> for MsgChannelOpenTry; the empty string is <<>>
MsgChannelOpenTry_try_from(raw_msg) ==
    LET proofs == IF raw_msg.proof_height = NoneV THEN Err([kind |-> "MissingHeight"])
                  ELSE LET p == Proofs_new(raw_msg.proof_init,
                                           Unwrap(raw_msg.proof_height))
                       IN IF p.ok THEN p
                          ELSE Err([kind |-> "InvalidProof", source |-> p.err])
        previous_channel_id ==
            IF raw_msg.previous_channel_id = <<>> THEN Ok(NoneV)
            ELSE LET id == parse_identifier(raw_msg.previous_channel_id)
                 IN IF id.ok THEN Ok(Some(id.val)) ELSE id
        port_id == parse_identifier(raw_msg.port_id)
        channel == IF raw_msg.channel = NoneV THEN Err([kind |-> "MissingChannel"])
                   ELSE ChannelEnd_try_from(Unwrap(raw_msg.channel))
        counterparty_version == validate_version(raw_msg.counterparty_version)
    IN IF ~proofs.ok THEN proofs
       ELSE IF ~previous_channel_id.ok THEN previous_channel_id
       ELSE IF ~port_id.ok THEN port_id
       ELSE IF ~channel.ok THEN channel
       ELSE IF ~counterparty_version.ok THEN counterparty_version
       ELSE IF channel.val.remote.channel_id = NoneV
       THEN Err([kind |-> "InvalidCounterpartyChannelId"])
       ELSE Ok([port_id |-> port_id.val,
                previous_channel_id |-> previous_channel_id.val,
                channel |-> channel.val,
                counterparty_version |-> counterparty_version.val,
                proofs |-> proofs.val, signer |-> raw_msg.signer])

\* TryFrom<RawMsgChannelOpenAck> for MsgChannelOpenAck
\* the conversion that takes an absent proof height for the zero height
MsgChannelOpenAck_try_from_default_height(raw_msg) ==
    LET proofs == LET p == Proofs_new(raw_msg.proof_try,
                                      IF raw_msg.proof_height = NoneV THEN Height(0, 0)
                                      ELSE Unwrap(raw_msg.proof_height))
                  IN IF p.ok THEN p
                     ELSE Err([kind |-> "InvalidProof", source |-> p.err])
        port_id == parse_identifier(raw_msg.port_id)
        channel_id == parse_identifier(raw_msg.channel_id)
        counterparty_channel_id == parse_identifier(raw_msg.counterparty_channel_id)
        counterparty_version == validate_version(raw_msg.counterparty_version)
    IN IF ~proofs.ok THEN proofs
       ELSE IF ~port_id.ok THEN port_id
       ELSE IF ~channel_id.ok THEN channel_id
       ELSE IF ~counterparty_channel_id.ok THEN counterparty_channel_id
       ELSE IF ~counterparty_version.ok THEN counterparty_version
       ELSE Ok([port_id |-> port_id.val, channel_id |-> channel_id.val,
                counterparty_channel_id |-> counterparty_channel_id.val,
                counterparty_version |-> counterparty_version.val,
                proofs |-> proofs.val, signer |-> raw_msg.signer])

MsgChannelOpenAck_try_from(raw_msg) ==
    LET proofs == IF raw_msg.proof_height = NoneV THEN Err([kind |-> "MissingHeight"])
                  ELSE LET p == Proofs_new(raw_msg.proof_try,
                                           Unwrap(raw_msg.proof_height))
                       IN IF p.ok THEN p
                          ELSE Err([kind |-> "InvalidProof", source |-> p.err])
        port_id == parse_identifier(raw_msg.port_id)
        channel_id == parse_identifier(raw_msg.channel_id)
        counterparty_channel_id == parse_identifier(raw_msg.counterparty_channel_id)
        counterparty_version == validate_version(raw_msg.counterparty_version)
    IN IF ~proofs.ok THEN proofs
       ELSE IF ~port_id.ok THEN port_id
       ELSE IF ~channel_id.ok THEN channel_id
       ELSE IF ~counterparty_channel_id.ok THEN counterparty_channel_id
       ELSE IF ~counterparty_version.ok THEN counterparty_version
       ELSE Ok([port_id |-> port_id.val, channel_id |-> channel_id.val,
                counterparty_channel_id |-> counterparty_channel_id.val,
                counterparty_version |-> counterparty_version.val,
                proofs |-> proofs.val, signer |-> raw_msg.signer])

\* MsgChannelOpenTry::new, MsgChannelOpenAck::new and validate_basic
MsgChannelOpenTry_new(port_id, previous_channel_id, channel, counterparty_version, proofs, signer) ==
    [port_id |-> port_id, previous_channel_id |-> previous_channel_id,
     channel |-> channel, counterparty_version |-> counterparty_version,
     proofs |-> proofs, signer |-> signer]

MsgChannelOpenTry_validate_basic(msg) ==
    IF msg.channel.remote.channel_id = NoneV
    THEN Err([kind |-> "InvalidCounterpartyChannelId"])
    ELSE Ok(<<>>)

MsgChannelOpenAck_new(port_id, channel_id, counterparty_channel_id, counterparty_version, proofs, signer) ==
    [port_id |-> port_id, channel_id |-> channel_id,
     counterparty_channel_id |-> counterparty_channel_id,
     counterparty_version |-> counterparty_version,
     proofs |-> proofs, signer |-> signer]

\* From<ChannelEnd> for RawChannel
RawChannel_from(value) ==
    [state |-> value.state, ordering |-> value.ordering,
     counterparty |-> Some(value.remote),
     connection_hops |-> value.connection_hops, version |-> value.version]

\* From<MsgChannelOpenTry> for RawMsgChannelOpenTry that writes the default
\* channel identifier for an absent previous one
RawMsgChannelOpenTry_from_default_id(domain_msg) ==
    [port_id |-> to_string(domain_msg.port_id),
     previous_channel_id |->
         IF domain_msg.previous_channel_id = NoneV THEN to_string(DefaultChannelId)
         ELSE to_string(Unwrap(domain_msg.previous_channel_id)),
     channel |-> Some(RawChannel_from(domain_msg.channel)),
     counterparty_version |-> domain_msg.counterparty_version,
     proof_init |-> domain_msg.proofs.object_proof,
     proof_height |-> Some(domain_msg.proofs.height),
     signer |-> domain_msg.signer]

\* From<MsgChannelOpenTry> for RawMsgChannelOpenTry
RawMsgChannelOpenTry_from(domain_msg) ==
    [port_id |-> to_string(domain_msg.port_id),
     previous_channel_id |->
         IF domain_msg.previous_channel_id = NoneV THEN <<>>
         ELSE to_string(Unwrap(domain_msg.previous_channel_id)),
     channel |-> Some(RawChannel_from(domain_msg.channel)),
     counterparty_version |-> domain_msg.counterparty_version,
     proof_init |-> domain_msg.proofs.object_proof,
     proof_height |-> Some(domain_msg.proofs.height),
     signer |-> domain_msg.signer]

\* From<MsgChannelOpenAck> for RawMsgChannelOpenAck
RawMsgChannelOpenAck_from(domain_msg) ==
    [port_id |-> to_string(domain_msg.port_id),
     channel_id |-> to_string(domain_msg.channel_id),
     counterparty_channel_id |-> to_string(domain_msg.counterparty_channel_id),
     counterparty_version |-> domain_msg.counterparty_version,
     proof_try |-> domain_msg.proofs.object_proof,
     proof_height |-> Some(domain_msg.proofs.height),
     signer |-> domain_msg.signer]

\* TryFrom of the raw messages of the other modules: a raw message that
\* carries proofs needs its proof_height, and the proofs are built from it
Msg_try_from(raw_msg) ==
    IF "proof_height" \notin DOMAIN raw_msg THEN Ok(raw_msg)
    ELSE IF raw_msg.proof_height = NoneV THEN Err([kind |-> "MissingHeight"])
    ELSE LET p == Proofs_new(raw_msg.proof, Unwrap(raw_msg.proof_height))
         IN IF ~p.ok THEN Err([kind |-> "InvalidProof", source |-> p.err])
            ELSE Ok([x \in (DOMAIN raw_msg \ {"proof", "proof_height"}) \cup {"proofs"} |->
                        IF x = "proofs" THEN p.val ELSE raw_msg[x]])

\* Protobuf::decode_vec: the wire decoding, then the TryFrom of the message type
decode_vec(proto, value) ==
    LET raw == prost_decode(proto, value)
    IN IF ~raw.ok THEN raw
       ELSE IF proto = "MsgCreateClient" THEN MsgCreateAnyClient_try_from(raw.val)
       ELSE IF proto = "MsgChannelOpenTry" THEN MsgChannelOpenTry_try_from(raw.val)
       ELSE IF proto = "MsgChannelOpenAck" THEN MsgChannelOpenAck_try_from(raw.val)
       ELSE Msg_try_from(raw.val)

\* an Ics26Envelope: the layer's variant, wrapping the variant of the message
Envelope(layer, variant, msg) == [layer |-> layer, variant |-> variant, msg |-> msg]

\* one arm of deliver's match: the decoded message wrapped in its envelope
\* variant, or MalformedMessageBytes
wrap_envelope(layer, variant, domain_msg) ==
    IF domain_msg.ok THEN Ok(Envelope(layer, variant, domain_msg.val))
    ELSE Err([kind |-> "MalformedMessageBytes", source |-> domain_msg.err])

\* deliver's match without the arm of timeout_on_close::TYPE_URL
decode_envelope_no_timeout_on_close(any_msg) ==
    LET url == any_msg.type_url
        value == any_msg.value
    IN CASE url = TYPE_URL.create_client ->
                wrap_envelope("Ics2Msg", "CreateClient",
                              decode_vec("MsgCreateClient", value))
         [] url = TYPE_URL_OF.update_client ->
                wrap_envelope("Ics2Msg", "UpdateClient",
                              decode_vec("MsgUpdateClient", value))
         [] url = TYPE_URL_OF.conn_open_init ->
                wrap_envelope("Ics3Msg", "ConnectionOpenInit",
                              decode_vec("MsgConnectionOpenInit", value))
         [] url = TYPE_URL_OF.conn_open_try ->
                wrap_envelope("Ics3Msg", "ConnectionOpenTry",
                              decode_vec("MsgConnectionOpenTry", value))
         [] url = TYPE_URL_OF.conn_open_ack ->
                wrap_envelope("Ics3Msg", "ConnectionOpenAck",
                              decode_vec("MsgConnectionOpenAck", value))
         [] url = TYPE_URL_OF.conn_open_confirm ->
                wrap_envelope("Ics3Msg", "ConnectionOpenConfirm",
                              decode_vec("MsgConnectionOpenConfirm", value))
         [] url = TYPE_URL_OF.chan_open_init ->
                wrap_envelope("Ics4ChannelMsg", "ChannelOpenInit",
                              decode_vec("MsgChannelOpenInit", value))
         [] url = TYPE_URL.chan_open_try ->
                wrap_envelope("Ics4ChannelMsg", "ChannelOpenTry",
                              decode_vec("MsgChannelOpenTry", value))
         [] url = TYPE_URL.chan_open_ack ->
                wrap_envelope("Ics4ChannelMsg", "ChannelOpenAck",
                              decode_vec("MsgChannelOpenAck", value))
         [] url = TYPE_URL_OF.chan_open_confirm ->
                wrap_envelope("Ics4ChannelMsg", "ChannelOpenConfirm",
                              decode_vec("MsgChannelOpenConfirm", value))
         [] url = TYPE_URL_OF.chan_close_init ->
                wrap_envelope("Ics4ChannelMsg", "ChannelCloseInit",
                              decode_vec("MsgChannelCloseInit", value))
         [] url = TYPE_URL_OF.chan_close_confirm ->
                wrap_envelope("Ics4ChannelMsg", "ChannelCloseConfirm",
                              decode_vec("MsgChannelCloseConfirm", value))
         [] url = TYPE_URL_OF.transfer ->
                wrap_envelope("Ics20Msg", "Transfer", decode_vec("MsgTransfer", value))
         [] url = TYPE_URL_OF.recv_packet ->
                wrap_envelope("Ics4PacketMsg", "RecvPacket",
                              decode_vec("MsgRecvPacket", value))
         [] url = TYPE_URL_OF.acknowledgement ->
                wrap_envelope("Ics4PacketMsg", "AckPacket",
                              decode_vec("MsgAcknowledgement", value))
         [] url = TYPE_URL_OF.timeout ->
                wrap_envelope("Ics4PacketMsg", "ToPacket", decode_vec("MsgTimeout", value))
         [] OTHER -> Err([kind |-> "UnknownMessageTypeUrl", type_url |-> url])

\* deliver's match on the type URL (handler.rs 42-145)
decode_envelope(any_msg) ==
    LET url == any_msg.type_url
        value == any_msg.value
    IN CASE url = TYPE_URL.create_client ->
                wrap_envelope("Ics2Msg", "CreateClient",
                              decode_vec("MsgCreateClient", value))
         [] url = TYPE_URL_OF.update_client ->
                wrap_envelope("Ics2Msg", "UpdateClient",
                              decode_vec("MsgUpdateClient", value))
         [] url = TYPE_URL_OF.conn_open_init ->
                wrap_envelope("Ics3Msg", "ConnectionOpenInit",
                              decode_vec("MsgConnectionOpenInit", value))
         [] url = TYPE_URL_OF.conn_open_try ->
                wrap_envelope("Ics3Msg", "ConnectionOpenTry",
                              decode_vec("MsgConnectionOpenTry", value))
         [] url = TYPE_URL_OF.conn_open_ack ->
                wrap_envelope("Ics3Msg", "ConnectionOpenAck",
                              decode_vec("MsgConnectionOpenAck", value))
         [] url = TYPE_URL_OF.conn_open_confirm ->
                wrap_envelope("Ics3Msg", "ConnectionOpenConfirm",
                              decode_vec("MsgConnectionOpenConfirm", value))
         [] url = TYPE_URL_OF.chan_open_init ->
                wrap_envelope("Ics4ChannelMsg", "ChannelOpenInit",
                              decode_vec("MsgChannelOpenInit", value))
         [] url = TYPE_URL.chan_open_try ->
                wrap_envelope("Ics4ChannelMsg", "ChannelOpenTry",
                              decode_vec("MsgChannelOpenTry", value))
         [] url = TYPE_URL.chan_open_ack ->
                wrap_envelope("Ics4ChannelMsg", "ChannelOpenAck",
                              decode_vec("MsgChannelOpenAck", value))
         [] url = TYPE_URL_OF.chan_open_confirm ->
                wrap_envelope("Ics4ChannelMsg", "ChannelOpenConfirm",
                              decode_vec("MsgChannelOpenConfirm", value))
         [] url = TYPE_URL_OF.chan_close_init ->
                wrap_envelope("Ics4ChannelMsg", "ChannelCloseInit",
                              decode_vec("MsgChannelCloseInit", value))
         [] url = TYPE_URL_OF.chan_close_confirm ->
                wrap_envelope("Ics4ChannelMsg", "ChannelCloseConfirm",
                              decode_vec("MsgChannelCloseConfirm", value))
         [] url = TYPE_URL_OF.transfer ->
                wrap_envelope("Ics20Msg", "Transfer", decode_vec("MsgTransfer", value))
         [] url = TYPE_URL_OF.recv_packet ->
                wrap_envelope("Ics4PacketMsg", "RecvPacket",
                              decode_vec("MsgRecvPacket", value))
         [] url = TYPE_URL_OF.acknowledgement ->
                wrap_envelope("Ics4PacketMsg", "AckPacket",
                              decode_vec("MsgAcknowledgement", value))
         [] url = TYPE_URL_OF.timeout ->
                wrap_envelope("Ics4PacketMsg", "ToPacket", decode_vec("MsgTimeout", value))
         [] url = TYPE_URL_OF.timeout_on_close ->
                wrap_envelope("Ics4PacketMsg", "ToClosePacket",
                              decode_vec("MsgTimeoutOnClose", value))
         [] OTHER -> Err([kind |-> "UnknownMessageTypeUrl", type_url |-> url])

\* dispatch reporting a sub-handler's error as a keeper's
dispatch_handler_error_as_keeper(c, msg) ==
    LET kept(handler_output, stored) ==
            IF ~stored.ok
            THEN [ok |-> FALSE, ctx |-> c,
                  err |-> [kind |-> "KeeperRaisedError", source |-> stored.err]]
            ELSE [ok |-> TRUE, ctx |-> stored.val,
                  val |-> HandlerOutput(<<>>, handler_output.val.events,
                                        handler_output.val.log)]
        handled(handler_output) ==
            IF ~handler_output.ok
            THEN [ok |-> FALSE, ctx |-> c,
                  err |-> [kind |-> "KeeperRaisedError", source |-> handler_output.err]]
            ELSE kept(handler_output,
                      CASE msg.layer = "Ics2Msg" ->
                               store_client_result(c, handler_output.val.result)
                        [] msg.layer = "Ics3Msg" ->
                               store_connection_result(c, handler_output.val.result)
                        [] msg.layer = "Ics4ChannelMsg" ->
                               store_channel_result(c, handler_output.val.result)
                        [] msg.layer \in {"Ics20Msg", "Ics4PacketMsg"} ->
                               store_packet_result(c, handler_output.val.result))
    IN handled(CASE msg.layer = "Ics2Msg" -> ics2_msg_dispatcher(c, msg)
                 [] msg.layer = "Ics3Msg" -> ics3_msg_dispatcher(c, msg)
                 [] msg.layer = "Ics4ChannelMsg" -> ics4_msg_dispatcher(c, msg)
                 [] msg.layer = "Ics20Msg" -> send_transfer(c, msg.msg)
                 [] msg.layer = "Ics4PacketMsg" -> ics04_packet_msg_dispatcher(c, msg))

\* dispatch whose client layer has taken the next identifier before its
\* handler refuses the message
dispatch_write_before_error(c, msg) ==
    LET kept(handler_output, stored) ==
            IF ~stored.ok
            THEN [ok |-> FALSE, ctx |-> c,
                  err |-> [kind |-> "KeeperRaisedError", source |-> stored.err]]
            ELSE [ok |-> TRUE, ctx |-> stored.val,
                  val |-> HandlerOutput(<<>>, handler_output.val.events,
                                        handler_output.val.log)]
        handled(handler_output) ==
            IF ~handler_output.ok
            THEN [ok |-> FALSE,
                  ctx |-> IF msg.layer = "Ics2Msg" THEN increase_client_counter(c) ELSE c,
                  err |-> [kind |-> "HandlerRaisedError", source |-> handler_output.err]]
            ELSE kept(handler_output,
                      CASE msg.layer = "Ics2Msg" ->
                               store_client_result(c, handler_output.val.result)
                        [] msg.layer = "Ics3Msg" ->
                               store_connection_result(c, handler_output.val.result)
                        [] msg.layer = "Ics4ChannelMsg" ->
                               store_channel_result(c, handler_output.val.result)
                        [] msg.layer \in {"Ics20Msg", "Ics4PacketMsg"} ->
                               store_packet_result(c, handler_output.val.result))
    IN handled(CASE msg.layer = "Ics2Msg" -> ics2_msg_dispatcher(c, msg)
                 [] msg.layer = "Ics3Msg" -> ics3_msg_dispatcher(c, msg)
                 [] msg.layer = "Ics4ChannelMsg" -> ics4_msg_dispatcher(c, msg)
                 [] msg.layer = "Ics20Msg" -> send_transfer(c, msg.msg)
                 [] msg.layer = "Ics4PacketMsg" -> ics04_packet_msg_dispatcher(c, msg))

dispatch(c, msg) ==
    LET kept(handler_output, stored) ==
            IF ~stored.ok
            THEN [ok |-> FALSE, ctx |-> c,
                  err |-> [kind |-> "KeeperRaisedError", source |-> stored.err]]
            ELSE [ok |-> TRUE, ctx |-> stored.val,
                  val |-> HandlerOutput(<<>>, handler_output.val.events,
                                        handler_output.val.log)]
        store(handler_output, result) ==
            kept(handler_output,
                 CASE msg.layer = "Ics2Msg" -> store_client_result(c, result)
                   [] msg.layer = "Ics3Msg" -> store_connection_result(c, result)
                   [] msg.layer = "Ics4ChannelMsg" -> store_channel_result(c, result)
                   [] msg.layer = "Ics20Msg" -> store_packet_result(c, result)
                   [] msg.layer = "Ics4PacketMsg" -> store_packet_result(c, result))
        handled(handler_output) ==
            IF ~handler_output.ok
            THEN [ok |-> FALSE, ctx |-> c,
                  err |-> [kind |-> "HandlerRaisedError", source |-> handler_output.err]]
            ELSE store(handler_output, handler_output.val.result)
    IN handled(CASE msg.layer = "Ics2Msg" -> ics2_msg_dispatcher(c, msg)
                 [] msg.layer = "Ics3Msg" -> ics3_msg_dispatcher(c, msg)
                 [] msg.layer = "Ics4ChannelMsg" -> ics4_msg_dispatcher(c, msg)
                 [] msg.layer = "Ics20Msg" -> send_transfer(c, msg.msg)
                 [] msg.layer = "Ics4PacketMsg" -> ics04_packet_msg_dispatcher(c, msg))

\* deliver's loop with the new events put before the gathered ones
RECURSIVE deliver_loop_prepend(_, _, _, _)
deliver_loop_prepend(ctx_interim, messages, res, taken) ==
    IF messages = <<>>
    THEN [ok |-> TRUE, ctx |-> ctx_interim, events |-> res, taken |-> taken]
    ELSE LET envelope == decode_envelope(Head(messages))
         IN IF ~envelope.ok
            THEN [ok |-> FALSE, ctx |-> ctx_interim, err |-> envelope.err,
                  taken |-> taken + 1]
            ELSE LET output == dispatch(ctx_interim, envelope.val)
                 IN IF ~output.ok
                    THEN [ok |-> FALSE, ctx |-> output.ctx, err |-> output.err,
                          taken |-> taken + 1]
                    ELSE deliver_loop_prepend(output.ctx, Tail(messages),
                                              output.val.events \o res, taken + 1)

\* deliver's loop going on with the next message after a failure
RECURSIVE deliver_loop_continue(_, _, _, _)
deliver_loop_continue(ctx_interim, messages, res, taken) ==
    IF messages = <<>>
    THEN [ok |-> TRUE, ctx |-> ctx_interim, events |-> res, taken |-> taken]
    ELSE LET envelope == decode_envelope(Head(messages))
             output == dispatch(ctx_interim, envelope.val)
             failed == ~envelope.ok \/ ~output.ok
             rest == IF failed
                     THEN deliver_loop_continue(ctx_interim, Tail(messages), res,
                                                taken + 1)
                     ELSE deliver_loop_continue(output.ctx, Tail(messages),
                                                res \o output.val.events, taken + 1)
         IN IF failed /\ rest.ok
            THEN [ok |-> FALSE, ctx |-> rest.ctx, taken |-> rest.taken,
                  err |-> IF ~envelope.ok THEN envelope.err ELSE output.err]
            ELSE rest

\* deliver's loop over the messages (handler.rs 40-151): ctx_interim is the
\* clone being written, res the events gathered, taken the number of
\* messages taken from the batch so far
RECURSIVE deliver_loop(_, _, _, _)
deliver_loop(ctx_interim, messages, res, taken) ==
    LET dispatched(output) ==
            IF ~output.ok
            THEN [ok |-> FALSE, ctx |-> output.ctx, err |-> output.err,
                  taken |-> taken + 1]
            ELSE deliver_loop(output.ctx, Tail(messages),
                              res \o output.val.events, taken + 1)
        decoded(envelope) ==
            IF ~envelope.ok
            THEN [ok |-> FALSE, ctx |-> ctx_interim, err |-> envelope.err,
                  taken |-> taken + 1]
            ELSE dispatched(dispatch(ctx_interim, envelope.val))
    IN IF messages = <<>>
       THEN [ok |-> TRUE, ctx |-> ctx_interim, events |-> res, taken |-> taken]
       ELSE decoded(decode_envelope(Head(messages)))

\* deliver writing the clone back also when a message failed
deliver_partial_commit(c, messages) ==
    LET r == deliver_loop(c, messages, <<>>, 0)
    IN IF r.ok
       THEN [ctx |-> r.ctx, result |-> Ok(r.events), taken |-> r.taken]
       ELSE [ctx |-> r.ctx, result |-> Err(r.err), taken |-> r.taken]

\* deliver: the caller's context afterwards, and what is returned
deliver(c, messages) ==
    LET returned(r) ==
            IF r.ok
            THEN [ctx |-> r.ctx, result |-> Ok(r.events), taken |-> r.taken]
            ELSE [ctx |-> c, result |-> Err(r.err), taken |-> r.taken]
    IN returned(deliver_loop(c, messages, <<>>, 0))

(***************************************************************************)
(* The host chain of MockContext: its history of blocks.                   *)
(***************************************************************************)
\* HostBlock::generate_block: the block of the chain at a revision height
generate_block(host_chain_id, revision_height) ==
    HostBlock(Height(host_chain_id[2], revision_height))

\* the block of target_height, when the history still holds it
host_block(c, target_height) ==
    LET target == target_height.revision_height
        latest == c.latest_height.revision_height
    IN IF target > latest \/ target <= latest - Len(c.history)
       THEN NoneV
       ELSE Some(c.history[Len(c.history) + target - latest])

\* Vec::rotate_left(1); the empty vector stays empty
rotate_left(history) ==
    IF history = <<>> THEN <<>> ELSE Append(Tail(history), Head(history))

\* advance_host_chain_height that appends also when the history is full
advance_host_chain_height_unpruned(c) ==
    [c EXCEPT !.history = Append(@, generate_block(c.host_chain_id,
                                     HeightIncrement(c.latest_height).revision_height)),
              !.latest_height = HeightIncrement(@)]

\* advance_host_chain_height that leaves latest_height as it was
advance_host_chain_height_stale_latest(c) ==
    LET new_block == generate_block(c.host_chain_id,
                                    HeightIncrement(c.latest_height).revision_height)
    IN [c EXCEPT !.history =
                    IF Len(@) >= c.max_history_size
                    THEN [rotate_left(@) EXCEPT ![c.max_history_size] = new_block]
                    ELSE Append(@, new_block)]

advance_host_chain_height(c) ==
    LET new_block == generate_block(c.host_chain_id,
                                    HeightIncrement(c.latest_height).revision_height)
    IN [c EXCEPT !.history =
                    IF Len(@) >= c.max_history_size
                    THEN [rotate_left(@) EXCEPT ![c.max_history_size] = new_block]
                    ELSE Append(@, new_block),
                 !.latest_height = HeightIncrement(@)]

\* MockContext::deliver that makes a block also for a refused envelope
MockContext_deliver_always_advancing(c, msg) ==
    LET done(r) ==
            IF ~r.ok
            THEN [ok |-> FALSE, ctx |-> advance_host_chain_height(c),
                  err |-> [kind |-> "TransactionFailed", source |-> r.err]]
            ELSE [ok |-> TRUE, ctx |-> advance_host_chain_height(r.ctx), val |-> <<>>]
    IN done(dispatch(c, msg))

\* MockContext::deliver: one envelope dispatched, then a new block
MockContext_deliver(c, msg) ==
    LET done(r) ==
            IF ~r.ok
            THEN [ok |-> FALSE, ctx |-> c,
                  err |-> [kind |-> "TransactionFailed", source |-> r.err]]
            ELSE [ok |-> TRUE, ctx |-> advance_host_chain_height(r.ctx), val |-> <<>>]
    IN done(dispatch(c, msg))

\* Ics18Context::send: the messages delivered, then a new block
send(c, msgs) ==
    LET done(r) ==
            IF ~r.result.ok
            THEN [ok |-> FALSE, ctx |-> c,
                  err |-> [kind |-> "TransactionFailed", source |-> r.result.err]]
            ELSE [ok |-> TRUE, ctx |-> advance_host_chain_height(r.ctx),
                  val |-> r.result.val]
    IN done(deliver(c, msgs))

\* MockContext::validate
validate(c) ==
    IF Len(c.history) > c.max_history_size THEN Err("too many entries")
    ELSE IF c.history # <<>> /\ c.history[Len(c.history)].height # c.latest_height
    THEN Err("latest height is not updated")
    ELSE IF \E i \in 2..Len(c.history) :
                HeightIncrement(c.history[i - 1].height) # c.history[i].height
    THEN Err("headers in history not sequential")
    ELSE Ok(<<>>)

\* host_oldest_height: history[0], which panics on an empty vector
host_oldest_height(c) ==
    IF c.history = <<>>
    THEN [panic |-> TRUE, message |-> "index out of bounds"]
    ELSE [panic |-> FALSE, val |-> c.history[1].height]

(***************************************************************************)
(* The contexts the handlers start from, built as the tests build them.    *)
(***************************************************************************)
TestConnectionEnd ==
    ConnectionEnd("Open", DefaultClientId,
                  ConnectionCounterparty(DefaultClientId, Some(DefaultConnectionId)))

TestChannelEnd(state) ==
    ChannelEnd(state, "Unordered",
               ChannelCounterparty(DefaultPortId, Some(DefaultChannelId)),
               <<DefaultConnectionId>>, "ics20")

\* the context of the "Good parameters" test of send_packet_processing
GoodContext(client_height, state) ==
    with_send_sequence(
        with_channel(
            with_port_capability(
                with_connection(
                    with_client(MockContextDefault, DefaultClientId, client_height),
                    DefaultConnectionId, TestConnectionEnd),
                DefaultPortId),
            DefaultPortId, DefaultChannelId, TestChannelEnd(state)),
        DefaultPortId, DefaultChannelId, 1)

\* the context of the test without a port capability
NoCapabilityContext ==
    with_channel(MockContextDefault, DefaultPortId, DefaultChannelId,
                 TestChannelEnd("TryOpen"))

InitContexts ==
    {MockContextDefault, NoCapabilityContext,
     GoodContext(Height(0, 1), "TryOpen")}

(***************************************************************************)
(* The messages submitted.                                                 *)
(***************************************************************************)
Signer == "signer"

CreateMockClientRaw(h) ==
    RawMsgCreateClient(Some(MockClientState(MockHeaderNew(h))),
                       Some(MockConsensusState(MockHeaderNew(h))), Signer)

UpdateAny(client_id, h) ==
    ProtoAny(TYPE_URL_OF.update_client,
             Bytes("MsgUpdateClient",
                   MsgUpdateAnyClient(client_id, AnyHeader("Mock", MockHeaderNew(h)),
                                      Signer)))

TransferAny(timeout_height, timeout_timestamp) ==
    ProtoAny(TYPE_URL_OF.transfer,
             Bytes("MsgTransfer",
                   MsgTransfer(DefaultPortId, DefaultChannelId, timeout_height,
                               timeout_timestamp)))

AnyMessages ==
    {ProtoAny(TYPE_URL.create_client, Bytes("MsgCreateClient",
                                            CreateMockClientRaw(Height(0, 1)))),
     ProtoAny(TYPE_URL.create_client,
              Bytes("MsgCreateClient",
                    RawMsgCreateClient(Some(MockClientState(MockHeaderNew(Height(0, 1)))),
                                       NoneV, Signer))),
     UpdateAny(DefaultClientId, Height(0, 2)),
     UpdateAny(ClientId("Mock", 0), Height(0, 1)),
     UpdateAny(ClientId("Mock", 0), Height(0, 2)),
     TransferAny(HeightZero, TimestampNone),
     TransferAny(Height(0, 2), 1),
     ProtoAny("/ibc.unknown.v1.MsgUnknown", GarbageBytes),
     ProtoAny(TYPE_URL_OF.update_client, GarbageBytes)}

RECURSIVE SeqsUpTo(_, _)
SeqsUpTo(S, n) ==
    IF n = 0 THEN {<<>>}
    ELSE LET shorter == SeqsUpTo(S, n - 1)
         IN shorter \cup {Append(q, x) : q \in shorter, x \in S}

Batches == SeqsUpTo(AnyMessages, MaxBatch)

\* the envelopes handed to dispatch directly: those the messages decode to
Envelopes ==
    {decode_envelope(a).val : a \in {b \in AnyMessages : decode_envelope(b).ok}}

\* the explored contexts stay within the bounds
WithinBounds(c) ==
    /\ c.client_ids_counter <= MaxIds
    /\ c.connection_ids_counter <= MaxIds
    /\ c.channel_ids_counter <= MaxIds
    /\ \A k \in DOMAIN c.next_sequence_send : c.next_sequence_send[k] <= MaxSeq

\* the packets of the SendPacket events among `events`, as (port, channel, sequence)
SendsOf(events) ==
    LET sends == SelectSeq(events, LAMBDA e : e.kind = "SendPacket")
    IN [i \in 1..Len(sends) |->
           <<sends[i].packet.source_port, sends[i].packet.source_channel,
             sends[i].packet.sequence>>]

(***************************************************************************)
(* The state machine: calls of deliver and dispatch on one context.        *)
(* `last` is the caller's view: no call pending ("none"), or the call that *)
(* has just returned, with its input, the context it started from and its  *)
(* result.  `sent` logs the packets of the SendPacket events returned.     *)
(***************************************************************************)
NoCall == [op |-> "none"]

Init ==
    /\ ctx \in InitContexts
    /\ last = NoCall
    /\ sent = <<>>

Deliver ==
    /\ last = NoCall
    /\ \E batch \in Batches :
        \E r \in {deliver(ctx, batch)} :
           /\ WithinBounds(r.ctx)
           /\ ctx' = r.ctx
           /\ last' = [op |-> "deliver", pre |-> ctx, batch |-> batch,
                       result |-> r.result, taken |-> r.taken]
           /\ sent' = IF r.result.ok THEN sent \o SendsOf(r.result.val) ELSE sent
           /\ Len(sent') <= MaxSeq

Dispatch ==
    /\ last = NoCall
    /\ \E msg \in Envelopes :
        \E r \in {dispatch(ctx, msg)} :
           /\ WithinBounds(r.ctx)
           /\ ctx' = r.ctx
           /\ last' = [op |-> "dispatch", pre |-> ctx, msg |-> msg,
                       result |-> IF r.ok THEN Ok(r.val) ELSE Err(r.err)]
           /\ sent' = IF r.ok THEN sent \o SendsOf(r.val.events) ELSE sent
           /\ Len(sent') <= MaxSeq

\* the caller has read the result and goes on to its next call
Return ==
    /\ last # NoCall
    /\ last' = NoCall
    /\ UNCHANGED <<ctx, sent>>

Next == Deliver \/ Dispatch \/ Return

Spec == Init /\ [][Next]_vars

(***************************************************************************)
(* send_packet called directly on built contexts, as send_packet_processing *)
(* does.                                                                   *)
(***************************************************************************)
\* a client whose state is frozen, as the keepers store it
with_frozen_client(c, client_id, height) ==
    store_consensus_state(
        store_client_state(
            store_client_type(c, client_id, "Tendermint"),
            client_id, TendermintClientState(MockHeaderNew(height), TRUE)),
        client_id, height, TendermintConsensusState(MockHeaderNew(height)))

\* a Mock client created by a CreateClient message whose header carries a timestamp
with_created_client(c, height, ts) ==
    dispatch(c, Envelope("Ics2Msg", "CreateClient",
                MsgCreateAnyClient_new(MockClientState(MockHeader(height, ts)),
                                       MockConsensusState(MockHeader(height, ts)),
                                       Signer).val)).ctx

SendClientContexts ==
    {MockContextDefault}
    \cup {with_client(MockContextDefault, DefaultClientId, h) :
             h \in {Height(0, 1), Height(0, 2), Height(1, 1)}}
    \cup {with_client_parametrized(MockContextDefault, DefaultClientId, Height(0, 1),
                                   Some(Height(0, 2))),
          with_frozen_client(MockContextDefault, DefaultClientId, Height(0, 1)),
          with_created_client(MockContextDefault, Height(0, 1), 2)}

SendConnectionEnds ==
    {ConnectionEnd("Open", id, ConnectionCounterparty(DefaultClientId,
                                                      Some(DefaultConnectionId))) :
        id \in {DefaultClientId, ClientId("Mock", 0)}}

SendChannelEnds ==
    {TestChannelEnd(st) : st \in {"Init", "TryOpen", "Open", "Closed"}}
    \cup {ChannelEnd("Init", "Unordered", ChannelCounterparty(DefaultPortId, NoneV),
                     <<DefaultConnectionId>>, "ics20")}

SendPackets ==
    {Packet(seq, DefaultPortId, DefaultChannelId, DefaultPortId, dc, th, tt) :
        seq \in 1..MaxSeq, dc \in {DefaultChannelId, ChannelId(1)},
        th \in {HeightZero, Height(0, 1), Height(0, 2), Height(1, 1)},
        tt \in {TimestampNone, 1, 2}}

\* one more builder call of the chain client, connection, port capability,
\* channel, send sequence, each of them optional
SendBuilders(c) ==
    LET noSeq == c.next_sequence_send = EmptyMap
        noChan == noSeq /\ c.channels = EmptyMap
        noPort == noChan /\ c.port_capabilities = EmptyMap
        noConn == noPort /\ c.connections = EmptyMap
    IN (IF noConn /\ c = MockContextDefault
          THEN SendClientContexts \ {MockContextDefault} ELSE {})
       \cup (IF noConn
               THEN {with_connection(c, DefaultConnectionId, e) :
                        e \in SendConnectionEnds}
               ELSE {})
       \cup (IF noPort THEN {with_port_capability(c, DefaultPortId)} ELSE {})
       \cup (IF noChan
               THEN {with_channel(c, DefaultPortId, DefaultChannelId, e) :
                        e \in SendChannelEnds}
               ELSE {})
       \cup (IF noSeq
               THEN {with_send_sequence(c, DefaultPortId, DefaultChannelId, n) :
                        n \in 1..MaxSeq}
               ELSE {})

InitSend ==
    /\ ctx = MockContextDefault
    /\ last = NoCall
    /\ sent = <<>>

\* the test extends its context by one builder call
SendSetup ==
    /\ last = NoCall
    /\ \E c \in SendBuilders(ctx) :
        /\ ctx' = c
        /\ UNCHANGED <<last, sent>>

SendPacket ==
    /\ last = NoCall
    /\ \E packet \in SendPackets :
        /\ last' = [op |-> "send_packet", pre |-> ctx, packet |-> packet,
                    result |-> send_packet(ctx, packet)]
        /\ UNCHANGED <<ctx, sent>>

NextSend == SendSetup \/ SendPacket \/ Return

SpecSend == InitSend /\ [][NextSend]_vars

(***************************************************************************)
(* Single messages of every type delivered one at a time, as the routing   *)
(* test dispatches them: one client, the two handshakes, packets.          *)
(***************************************************************************)
\* the client the first CreateClient makes
RouteClientId == ClientId("Mock", 0)

RouteCounterparty == ConnectionCounterparty(DefaultClientId, Some(DefaultConnectionId))

RouteChannelEnd(connection_id) ==
    ChannelEnd("Init", "Unordered",
               ChannelCounterparty(DefaultPortId, Some(DefaultChannelId)),
               <<connection_id>>, "ics20")

\* the packet the transfers send, and the one received from the counterparty
RoutePacket(seq, timeout_height) ==
    Packet(seq, DefaultPortId, DefaultChannelId, DefaultPortId, DefaultChannelId,
           timeout_height, TimestampNone)

\* a proof and the height it was taken at, in a raw message
RawProof(height) == [proof |-> <<1>>, proof_height |-> height]

\* the raw messages of each message type: well-formed ones, and for the
\* types carrying a proof one without its proof height
RawMessages ==
    [create_client |->
        {Bytes("MsgCreateClient", CreateMockClientRaw(Height(0, 1))),
         Bytes("MsgCreateClient",
               RawMsgCreateClient(NoneV, Some(MockConsensusState(MockHeaderNew(Height(0, 1)))),
                                  Signer))},
     update_client |->
        {Bytes("MsgUpdateClient",
               MsgUpdateAnyClient(RouteClientId, AnyHeader("Mock", MockHeaderNew(Height(0, 2))),
                                  Signer))},
     conn_open_init |->
        {Bytes("MsgConnectionOpenInit",
               [client_id |-> RouteClientId, counterparty |-> RouteCounterparty,
                version |-> "1", delay_period |-> 0, signer |-> Signer])},
     conn_open_try |->
        {Bytes("MsgConnectionOpenTry",
               [previous_connection_id |-> prev, client_id |-> RouteClientId,
                counterparty |-> RouteCounterparty, counterparty_versions |-> <<"1">>,
                delay_period |-> 0, consensus_height |-> Height(0, ch),
                signer |-> Signer] @@ RawProof(ph)) :
            prev \in {NoneV, Some(DefaultConnectionId)}, ch \in {5, 6},
            ph \in {NoneV, Some(Height(0, 1))}},
     conn_open_ack |->
        {Bytes("MsgConnectionOpenAck",
               [connection_id |-> DefaultConnectionId,
                counterparty_connection_id |-> DefaultConnectionId, version |-> "1",
                consensus_height |-> Height(0, 5), signer |-> Signer]
                   @@ RawProof(Some(Height(0, 1))))},
     conn_open_confirm |->
        {Bytes("MsgConnectionOpenConfirm",
               [connection_id |-> ConnectionId(1), signer |-> Signer]
                   @@ RawProof(Some(Height(0, 1))))},
     chan_open_init |->
        {Bytes("MsgChannelOpenInit",
               [port_id |-> DefaultPortId, channel |-> RouteChannelEnd(id),
                signer |-> Signer]) : id \in {DefaultConnectionId, ConnectionId(9)}},
     chan_open_try |->
        {Bytes("MsgChannelOpenTry",
               [port_id |-> to_string(DefaultPortId), previous_channel_id |-> prev,
                channel |->
                    Some([state |-> "Init", ordering |-> "Unordered",
                          counterparty |->
                              Some(ChannelCounterparty(DefaultPortId,
                                                       Some(DefaultChannelId))),
                          connection_hops |-> <<DefaultConnectionId>>,
                          version |-> "ics20"]),
                counterparty_version |-> "", proof_init |-> <<1>>,
                proof_height |-> ph, signer |-> Signer]) :
            prev \in {<<>>, to_string(DefaultChannelId)},
            ph \in {NoneV, Some(Height(0, 1))}},
     chan_open_ack |->
        {Bytes("MsgChannelOpenAck",
               [port_id |-> to_string(DefaultPortId),
                channel_id |-> to_string(DefaultChannelId),
                counterparty_channel_id |-> to_string(DefaultChannelId),
                counterparty_version |-> "", proof_try |-> <<1>>,
                proof_height |-> Some(Height(0, 1)), signer |-> Signer])},
     chan_open_confirm |->
        {Bytes("MsgChannelOpenConfirm",
               [port_id |-> DefaultPortId, channel_id |-> ChannelId(1),
                signer |-> Signer] @@ RawProof(Some(Height(0, 1))))},
     chan_close_init |->
        {Bytes("MsgChannelCloseInit",
               [port_id |-> DefaultPortId, channel_id |-> DefaultChannelId,
                signer |-> Signer])},
     chan_close_confirm |->
        {Bytes("MsgChannelCloseConfirm",
               [port_id |-> DefaultPortId, channel_id |-> DefaultChannelId,
                signer |-> Signer] @@ RawProof(Some(Height(0, 1))))},
     transfer |->
        {Bytes("MsgTransfer",
               MsgTransfer(DefaultPortId, DefaultChannelId, Height(0, 2), TimestampNone))},
     recv_packet |->
        {Bytes("MsgRecvPacket",
               [packet |-> RoutePacket(1, th), signer |-> Signer]
                   @@ RawProof(Some(Height(0, 1)))) : th \in {Height(0, 5), Height(0, 6)}},
     acknowledgement |->
        {Bytes("MsgAcknowledgement",
               [packet |-> RoutePacket(1, Height(0, 2)), acknowledgement |-> <<1>>,
                signer |-> Signer] @@ RawProof(Some(Height(0, 1))))},
     timeout |->
        {Bytes("MsgTimeout",
               [packet |-> RoutePacket(1, Height(0, 2)), next_sequence_recv |-> 1,
                signer |-> Signer] @@ RawProof(Some(Height(0, ph)))) : ph \in {1, 2}},
     timeout_on_close |->
        {Bytes("MsgTimeoutOnClose",
               [packet |-> RoutePacket(2, Height(0, 2)), next_sequence_recv |-> 1,
                signer |-> Signer] @@ RawProof(Some(Height(0, 1))))}]

\* the type URL of each message type, and two URLs that are none of them
RouteTypeUrls == TYPE_URL @@ TYPE_URL_OF

UnknownTypeUrls == {"/ibc.core.client.v1.MsgUpgradeClient", ""}

\* every message type with each of its raw messages and with garbage, and
\* the same bytes under unknown type URLs
RouteMessages ==
    UNION {{ProtoAny(RouteTypeUrls[t], v) : v \in RawMessages[t] \cup {GarbageBytes}} :
              t \in DOMAIN RouteTypeUrls}
    \cup {ProtoAny(url, v) : url \in UnknownTypeUrls,
                             v \in RawMessages.create_client \cup {GarbageBytes}}

InitRoute ==
    /\ ctx \in {MockContextDefault, with_port_capability(MockContextDefault, DefaultPortId)}
    /\ last = NoCall
    /\ sent = <<>>

Route ==
    /\ last = NoCall
    /\ \E any_msg \in RouteMessages :
        \E r \in {deliver(ctx, <<any_msg>>)} :
           /\ WithinBounds(r.ctx)
           /\ DOMAIN r.ctx.clients \subseteq {RouteClientId}
           /\ ctx' = r.ctx
           /\ last' = [op |-> "deliver", pre |-> ctx, batch |-> <<any_msg>>,
                       result |-> r.result, taken |-> r.taken]
           /\ sent' = IF r.result.ok THEN sent \o SendsOf(r.result.val) ELSE sent
           /\ Len(sent') <= MaxSeq

NextRoute == Route \/ Return

SpecRoute == InitRoute /\ [][NextRoute]_vars

(***************************************************************************)
(* The same messages handed to dispatch directly, as the routing test      *)
(* does after decoding them.                                               *)
(***************************************************************************)
RouteEnvelopes ==
    {decode_envelope(a).val : a \in {b \in RouteMessages : decode_envelope(b).ok}}

DispatchRoute ==
    /\ last = NoCall
    /\ \E msg \in RouteEnvelopes :
        \E r \in {dispatch(ctx, msg)} :
           /\ WithinBounds(r.ctx)
           /\ DOMAIN r.ctx.clients \subseteq {RouteClientId}
           /\ ctx' = r.ctx
           /\ last' = [op |-> "dispatch", pre |-> ctx, msg |-> msg,
                       result |-> IF r.ok THEN Ok(r.val) ELSE Err(r.err)]
           /\ sent' = IF r.ok THEN sent \o SendsOf(r.val.events) ELSE sent
           /\ Len(sent') <= MaxSeq

NextDispatch == DispatchRoute \/ Return

SpecDispatch == InitRoute /\ [][NextDispatch]_vars

(***************************************************************************)
(* The host chain: contexts made by MockContext::new with every pruning    *)
(* window and starting height, advanced by advance_host_chain_height, by   *)
(* MockContext::deliver and by Ics18Context::send; the host's readers are  *)
(* called on every context reached.                                        *)
(***************************************************************************)
HostContexts ==
    {MockContextNew(max_history_size, Height(0, h)) :
        max_history_size \in 1..MaxHeight, h \in 0..MaxHeight}

\* accepted and refused client messages
HostMessages ==
    {ProtoAny(TYPE_URL.create_client, Bytes("MsgCreateClient",
                                            CreateMockClientRaw(Height(0, 1)))),
     UpdateAny(ClientId("Mock", 0), Height(0, 2)),
     ProtoAny(TYPE_URL_OF.update_client, GarbageBytes)}

HostEnvelopes ==
    {decode_envelope(a).val : a \in {b \in HostMessages : decode_envelope(b).ok}}

HostBatches == SeqsUpTo(HostMessages, MaxBatch)

\* the chain is followed for MaxHeight blocks past the highest start
HostWithinBounds(c) ==
    /\ WithinBounds(c)
    /\ c.latest_height.revision_height <= MaxHeight + MaxHeight
    /\ DOMAIN c.clients \subseteq {ClientId("Mock", 0)}

InitHost ==
    /\ ctx \in HostContexts
    /\ last = NoCall
    /\ sent = <<>>

AdvanceHost ==
    /\ last = NoCall
    /\ \E c \in {advance_host_chain_height(ctx)} :
          /\ HostWithinBounds(c)
          /\ ctx' = c
          /\ last' = [op |-> "advance_host_chain_height", pre |-> ctx]
          /\ UNCHANGED sent

HostDeliver ==
    /\ last = NoCall
    /\ \E msg \in HostEnvelopes :
        \E r \in {MockContext_deliver(ctx, msg)} :
           /\ HostWithinBounds(r.ctx)
           /\ ctx' = r.ctx
           /\ last' = [op |-> "MockContext::deliver", pre |-> ctx, msg |-> msg,
                       result |-> IF r.ok THEN Ok(r.val) ELSE Err(r.err)]
           /\ UNCHANGED sent

HostSend ==
    /\ last = NoCall
    /\ \E msgs \in HostBatches :
        \E r \in {send(ctx, msgs)} :
           /\ HostWithinBounds(r.ctx)
           /\ ctx' = r.ctx
           /\ last' = [op |-> "send", pre |-> ctx, msgs |-> msgs,
                       result |-> IF r.ok THEN Ok(r.val) ELSE Err(r.err)]
           /\ UNCHANGED sent

\* the host's readers and validate called on the context
HostRead ==
    /\ last = NoCall
    /\ \E target \in 0..(MaxHeight + MaxHeight) :
          last' = [op |-> "read", pre |-> ctx, target |-> Height(0, target),
                   validate |-> validate(ctx),
                   host_oldest_height |-> host_oldest_height(ctx),
                   host_block |-> host_block(ctx, Height(0, target))]
    /\ UNCHANGED <<ctx, sent>>

NextHost == AdvanceHost \/ HostDeliver \/ HostSend \/ HostRead \/ Return

SpecHost == InitHost /\ [][NextHost]_vars

(***************************************************************************)
(* The sequence builders applied one after the other to                    *)
(* MockContext::default(), for two channels and every sequence number.     *)
(***************************************************************************)
BuilderChannels == {DefaultChannelId, ChannelId(1)}

InitBuilders ==
    /\ ctx = MockContextDefault
    /\ last = NoCall
    /\ sent = <<>>

WithSendSequence ==
    /\ last = NoCall
    /\ \E chan_id \in BuilderChannels, seq_number \in 1..MaxSeq :
          /\ ctx' = with_send_sequence(ctx, DefaultPortId, chan_id, seq_number)
          /\ last' = [op |-> "with_send_sequence", pre |-> ctx,
                      key |-> <<DefaultPortId, chan_id>>, seq_number |-> seq_number]
    /\ UNCHANGED sent

WithRecvSequence ==
    /\ last = NoCall
    /\ \E chan_id \in BuilderChannels, seq_number \in 1..MaxSeq :
          /\ ctx' = with_recv_sequence(ctx, DefaultPortId, chan_id, seq_number)
          /\ last' = [op |-> "with_recv_sequence", pre |-> ctx,
                      key |-> <<DefaultPortId, chan_id>>, seq_number |-> seq_number]
    /\ UNCHANGED sent

WithAckSequence ==
    /\ last = NoCall
    /\ \E chan_id \in BuilderChannels, seq_number \in 1..MaxSeq :
          /\ ctx' = with_ack_sequence(ctx, DefaultPortId, chan_id, seq_number)
          /\ last' = [op |-> "with_ack_sequence", pre |-> ctx,
                      key |-> <<DefaultPortId, chan_id>>, seq_number |-> seq_number]
    /\ UNCHANGED sent

NextBuilders == WithSendSequence \/ WithRecvSequence \/ WithAckSequence \/ Return

SpecBuilders == InitBuilders /\ [][NextBuilders]_vars

\* the messages of every type submitted through deliver and through dispatch
NextStore == Route \/ DispatchRoute \/ Return

SpecStore == InitRoute /\ [][NextStore]_vars

(***************************************************************************)
(* The client handlers alone: client messages delivered one at a time to   *)
(* MockContext::default(), as the routing test does (handler.rs 366-420).  *)
(***************************************************************************)
ClientHeaders == {MockHeaderNew(Height(0, h)) : h \in 1..MaxHeight}

AnyClientState(ctype, header) ==
    IF ctype = "Mock" THEN MockClientState(header)
    ELSE TendermintClientState(header, FALSE)

AnyConsensusState(ctype, header) ==
    IF ctype = "Mock" THEN MockConsensusState(header)
    ELSE TendermintConsensusState(header)

CreateClientAny(raw) ==
    ProtoAny(TYPE_URL.create_client, Bytes("MsgCreateClient", raw))

\* well-formed CreateClient messages of both schemes, messages whose client
\* and consensus state are of different schemes, and messages lacking one
CreateClientMessages ==
    {CreateClientAny(RawMsgCreateClient(Some(AnyClientState(t, h)),
                                        Some(AnyConsensusState(t, h)), Signer)) :
        t \in ClientTypes, h \in ClientHeaders}
    \cup {CreateClientAny(RawMsgCreateClient(
              Some(AnyClientState(t, MockHeaderNew(Height(0, 1)))),
              Some(AnyConsensusState(u, MockHeaderNew(Height(0, 1)))), Signer)) :
            t \in ClientTypes, u \in ClientTypes}
    \cup {CreateClientAny(RawMsgCreateClient(
              NoneV, Some(MockConsensusState(MockHeaderNew(Height(0, 1)))), Signer)),
          CreateClientAny(RawMsgCreateClient(
              Some(MockClientState(MockHeaderNew(Height(0, 1)))), NoneV, Signer))}

\* UpdateClient messages for every client id the handlers can mint, with
\* headers of both schemes
UpdateClientMessages ==
    {ProtoAny(TYPE_URL_OF.update_client,
              Bytes("MsgUpdateClient",
                    MsgUpdateAnyClient(ClientId(t, n), AnyHeader(u, h), Signer))) :
        t \in ClientTypes, n \in 0..(MaxIds - 1), u \in ClientTypes, h \in ClientHeaders}

ClientMessages == CreateClientMessages \cup UpdateClientMessages

\* the number of consensus states in the store
RECURSIVE ConsensusStatesStored(_, _)
ConsensusStatesStored(c, ids) ==
    IF ids = {} THEN 0
    ELSE LET id == CHOOSE x \in ids : TRUE
         IN Cardinality(DOMAIN c.clients[id].consensus_states)
            + ConsensusStatesStored(c, ids \ {id})

InitClient ==
    /\ ctx = MockContextDefault
    /\ last = NoCall
    /\ sent = <<>>

ClientDeliver ==
    /\ last = NoCall
    /\ \E any_msg \in ClientMessages :
        \E r \in {deliver(ctx, <<any_msg>>)} :
           /\ WithinBounds(r.ctx)
           /\ ConsensusStatesStored(r.ctx, DOMAIN r.ctx.clients) <= MaxHeight
           /\ ctx' = r.ctx
           /\ last' = [op |-> "deliver", pre |-> ctx, batch |-> <<any_msg>>,
                       result |-> r.result, taken |-> r.taken]
           /\ UNCHANGED sent

NextClient == ClientDeliver \/ Return

SpecClient == InitClient /\ [][NextClient]_vars

(***************************************************************************)
(* AnyClient's functions called on client states and headers of every      *)
(* scheme.                                                                 *)
(***************************************************************************)
AnyClientFunctions == {"check_header_and_update_state"} \cup VerifyFunctions

AnyClientStates ==
    {MockClientState(h) : h \in ClientHeaders}
    \cup {TendermintClientState(h, frozen) : h \in ClientHeaders, frozen \in BOOLEAN}

AnyHeaders == {AnyHeader(t, h) : t \in ClientTypes, h \in ClientHeaders}

InitAnyClient ==
    /\ ctx = MockContextDefault
    /\ last = NoCall
    /\ sent = <<>>

AnyClientCall ==
    /\ last = NoCall
    /\ \E fn \in AnyClientFunctions, def \in ClientTypes, cs \in AnyClientStates :
        \E header \in IF fn = "check_header_and_update_state" THEN AnyHeaders
                      ELSE {NoneV} :
        \E r \in {AnyClient_call(fn, def, cs, header)} :
           /\ last' = [op |-> fn, def |-> def, client_state |-> cs,
                       header |-> header, calls |-> r.calls, result |-> r.result]
           /\ UNCHANGED <<ctx, sent>>

NextAnyClient == AnyClientCall \/ Return

SpecAnyClient == InitAnyClient /\ [][NextAnyClient]_vars

(***************************************************************************)
(* MsgCreateAnyClient built from states of every scheme, and decoded from  *)
(* raw messages.                                                           *)
(***************************************************************************)
AnyConsensusStates == {AnyConsensusState(t, h) : t \in ClientTypes, h \in ClientHeaders}

\* a raw state of a scheme this build does not know
UnknownRawState == [type |-> "Unknown"]

RawCreateClientMessages ==
    {RawMsgCreateClient(cs, cons, Signer) :
        cs \in {NoneV} \cup {Some(x) : x \in AnyClientStates \cup {UnknownRawState}},
        cons \in {NoneV} \cup {Some(x) : x \in AnyConsensusStates \cup {UnknownRawState}}}

InitCreateMsg ==
    /\ ctx = MockContextDefault
    /\ last = NoCall
    /\ sent = <<>>

CreateMsgNew ==
    /\ last = NoCall
    /\ \E cs \in AnyClientStates, cons \in AnyConsensusStates :
          last' = [op |-> "MsgCreateAnyClient::new", client_state |-> cs,
                   consensus_state |-> cons,
                   result |-> MsgCreateAnyClient_new(cs, cons, Signer)]
    /\ UNCHANGED <<ctx, sent>>

CreateMsgTryFrom ==
    /\ last = NoCall
    /\ \E raw \in RawCreateClientMessages :
          last' = [op |-> "MsgCreateAnyClient::try_from", raw |-> raw,
                   result |-> MsgCreateAnyClient_try_from(raw)]
    /\ UNCHANGED <<ctx, sent>>

NextCreateMsg == CreateMsgNew \/ CreateMsgTryFrom \/ Return

SpecCreateMsg == InitCreateMsg /\ [][NextCreateMsg]_vars

(***************************************************************************)
(* Batches of the messages that allocate identifiers, delivered to         *)
(* MockContext::default() with the port bound.                             *)
(***************************************************************************)
\* the messages that allocate a client, a connection or a channel identifier,
\* the ConnOpenAck that opens the connection the channels run over, and
\* messages that fail: a ConnOpenTry claiming a consensus height above the
\* host's and a ChanOpenInit over a connection that does not exist
CounterMessages ==
    {ProtoAny(TYPE_URL.create_client,
              Bytes("MsgCreateClient", CreateMockClientRaw(Height(0, 1))))}
    \cup {ProtoAny(TYPE_URL_OF.conn_open_init, v) : v \in RawMessages.conn_open_init}
    \cup {ProtoAny(TYPE_URL_OF.conn_open_try, v) :
             v \in {w \in RawMessages.conn_open_try :
                       /\ w.raw.previous_connection_id = NoneV
                       /\ w.raw.proof_height # NoneV}}
    \cup {ProtoAny(TYPE_URL_OF.conn_open_ack, v) : v \in RawMessages.conn_open_ack}
    \cup {ProtoAny(TYPE_URL_OF.chan_open_init, v) : v \in RawMessages.chan_open_init}
    \cup {ProtoAny(TYPE_URL.chan_open_try, v) :
             v \in {w \in RawMessages.chan_open_try :
                       /\ w.raw.previous_channel_id = <<>>
                       /\ w.raw.proof_height # NoneV}}

CounterBatches == SeqsUpTo(CounterMessages, MaxBatch) \ {<<>>}

InitCounters ==
    /\ ctx = with_port_capability(MockContextDefault, DefaultPortId)
    /\ last = NoCall
    /\ sent = <<>>

DeliverBatch ==
    /\ last = NoCall
    /\ \E batch \in CounterBatches :
        \E r \in {deliver(ctx, batch)} :
           /\ WithinBounds(r.ctx)
           /\ ctx' = r.ctx
           /\ last' = [op |-> "deliver", pre |-> ctx, batch |-> batch,
                       result |-> r.result, taken |-> r.taken]
           /\ UNCHANGED sent

NextCounters == DeliverBatch \/ Return

SpecCounters == InitCounters /\ [][NextCounters]_vars

(***************************************************************************)
(* Receiving on ordered and unordered channels: a client, a connection and *)
(* channels of either ordering are opened through the handlers on the      *)
(* default context, channel 0 may be closed, and packets with sequences up *)
(* to MaxSeq, with a timeout at or above the host height, are delivered.   *)
(***************************************************************************)
Orderings == {"Ordered", "Unordered"}

\* a packet from the counterparty's channel to the channel `n` of this chain
ReceivedPacket(n, seq, timeout_height) ==
    Packet(seq, DefaultPortId, DefaultChannelId, DefaultPortId, ChannelId(n),
           timeout_height, TimestampNone)

OrderedMessages ==
    {ProtoAny(TYPE_URL.create_client,
              Bytes("MsgCreateClient", CreateMockClientRaw(Height(0, 1))))}
    \cup {ProtoAny(TYPE_URL_OF.conn_open_init, v) : v \in RawMessages.conn_open_init}
    \cup {ProtoAny(TYPE_URL_OF.conn_open_ack, v) : v \in RawMessages.conn_open_ack}
    \cup {ProtoAny(TYPE_URL_OF.chan_open_init,
                   Bytes("MsgChannelOpenInit",
                         [port_id |-> DefaultPortId,
                          channel |-> ChannelEnd("Init", o,
                                          ChannelCounterparty(DefaultPortId,
                                                              Some(DefaultChannelId)),
                                          <<DefaultConnectionId>>, "ics20"),
                          signer |-> Signer])) : o \in Orderings}
    \cup {ProtoAny(TYPE_URL.chan_open_ack,
                   Bytes("MsgChannelOpenAck",
                         [port_id |-> to_string(DefaultPortId),
                          channel_id |-> to_string(ChannelId(n)),
                          counterparty_channel_id |-> to_string(DefaultChannelId),
                          counterparty_version |-> "", proof_try |-> <<1>>,
                          proof_height |-> Some(Height(0, 1)), signer |-> Signer])) :
             n \in {0, 1}}
    \cup {ProtoAny(TYPE_URL_OF.chan_close_init, v) : v \in RawMessages.chan_close_init}
    \cup {ProtoAny(TYPE_URL_OF.recv_packet,
                   Bytes("MsgRecvPacket",
                         [packet |-> ReceivedPacket(n, seq, th), signer |-> Signer]
                             @@ RawProof(Some(Height(0, 1))))) :
             n \in {0, 1}, seq \in 1..MaxSeq, th \in {Height(0, 5), Height(0, 6)}}

InitOrdered ==
    /\ ctx = with_port_capability(MockContextDefault, DefaultPortId)
    /\ last = NoCall
    /\ sent = <<>>

DeliverOrdered ==
    /\ last = NoCall
    /\ \E any_msg \in OrderedMessages :
        \E r \in {deliver(ctx, <<any_msg>>)} :
           /\ WithinBounds(r.ctx)
           /\ DOMAIN r.ctx.clients \subseteq {RouteClientId}
           /\ ctx' = r.ctx
           /\ last' = [op |-> "deliver", pre |-> ctx, batch |-> <<any_msg>>,
                       result |-> r.result, taken |-> r.taken]
           /\ UNCHANGED sent

NextOrdered == DeliverOrdered \/ Return

SpecOrdered == InitOrdered /\ [][NextOrdered]_vars

(***************************************************************************)
(* The handshakes: the nine opening messages of the routing test, the Try  *)
(* messages allocating their own identifiers and the Confirm messages      *)
(* addressed to the ends the Try messages made, delivered in any order to  *)
(* the default context with the port bound.                                *)
(***************************************************************************)
HandshakeTypes ==
    <<"create_client", "conn_open_init", "conn_open_try", "conn_open_ack",
      "conn_open_confirm", "chan_open_init", "chan_open_try", "chan_open_ack",
      "chan_open_confirm">>

\* the kind of the event each of them emits
HandshakeEvents ==
    <<"CreateClient", "OpenInitConnection", "OpenTryConnection", "OpenAckConnection",
      "OpenConfirmConnection", "OpenInitChannel", "OpenTryChannel", "OpenAckChannel",
      "OpenConfirmChannel">>

\* the raw message of each step
HandshakeRaw(t) ==
    CASE t = "create_client" ->
            Bytes("MsgCreateClient", CreateMockClientRaw(Height(0, 1)))
      [] t = "conn_open_try" ->
            CHOOSE w \in RawMessages.conn_open_try :
               /\ w.raw.previous_connection_id = NoneV
               /\ w.raw.proof_height # NoneV
               /\ w.raw.consensus_height = Height(0, 5)
      [] t = "chan_open_init" ->
            CHOOSE w \in RawMessages.chan_open_init :
               w.raw.channel.connection_hops = <<DefaultConnectionId>>
      [] t = "chan_open_try" ->
            CHOOSE w \in RawMessages.chan_open_try :
               w.raw.previous_channel_id = <<>> /\ w.raw.proof_height # NoneV
      [] OTHER -> CHOOSE w \in RawMessages[t] : TRUE

HandshakeMessages ==
    [k \in 1..Len(HandshakeTypes) |->
        ProtoAny(RouteTypeUrls[HandshakeTypes[k]], HandshakeRaw(HandshakeTypes[k]))]

HandshakeStart == with_port_capability(MockContextDefault, DefaultPortId)

\* the outcome of delivering the k-th message to the store `before`
HandshakeDeliver(before, k) ==
    LET r == deliver(before, <<HandshakeMessages[k]>>)
    IN [ctx |-> r.ctx, result |-> r.result]

\* the outcome of delivering the first k messages in order, one by one
RECURSIVE HandshakeRun(_)
HandshakeRun(k) ==
    IF k = 0 THEN [ctx |-> HandshakeStart, result |-> Ok(<<>>)]
    ELSE CHOOSE r \in {HandshakeDeliver(before.ctx, k) :
                          before \in {HandshakeRun(k - 1)}} : TRUE

InitHandshake ==
    /\ ctx = HandshakeStart
    /\ last = NoCall
    /\ sent = <<>>

HandshakeStep ==
    /\ last = NoCall
    /\ \E k \in DOMAIN HandshakeMessages :
        \E r \in {deliver(ctx, <<HandshakeMessages[k]>>)} :
           /\ WithinBounds(r.ctx)
           /\ DOMAIN r.ctx.clients \subseteq {RouteClientId}
           /\ ctx' = r.ctx
           /\ last' = [op |-> "deliver", pre |-> ctx, batch |-> <<HandshakeMessages[k]>>,
                       result |-> r.result, taken |-> r.taken]
           /\ UNCHANGED sent

NextHandshake == HandshakeStep \/ Return

SpecHandshake == InitHandshake /\ [][NextHandshake]_vars

(***************************************************************************)
(* The life of a channel: the messages of the routing test addressed to    *)
(* channel 0, of either ordering, over connection 0 or a connection that   *)
(* does not exist: its opening, its closing, and transfers, receives,      *)
(* acknowledgements and timeouts of its packets before and after.  The     *)
(* store is kept to one client, one connection and one channel.            *)
(***************************************************************************)
MissingConnectionId == ConnectionId(9)

\* the timeout heights of the packets sent: one that the counterparty
\* heights the client knows reach, and one they do not
PacketTimeouts == {Height(0, 2), Height(0, 6)}

ChannelOpenTryRaw(prev, ordering, connection_id) ==
    Bytes("MsgChannelOpenTry",
          [port_id |-> to_string(DefaultPortId), previous_channel_id |-> prev,
           channel |->
               Some([state |-> "Init", ordering |-> ordering,
                     counterparty |->
                         Some(ChannelCounterparty(DefaultPortId, Some(DefaultChannelId))),
                     connection_hops |-> <<connection_id>>, version |-> "ics20"]),
           counterparty_version |-> "", proof_init |-> <<1>>,
           proof_height |-> Some(Height(0, 1)), signer |-> Signer])

ChannelMessages ==
    {ProtoAny(TYPE_URL.create_client,
              Bytes("MsgCreateClient", CreateMockClientRaw(Height(0, 1))))}
    \cup {ProtoAny(TYPE_URL_OF.update_client, v) : v \in RawMessages.update_client}
    \cup {ProtoAny(TYPE_URL_OF.conn_open_init, v) : v \in RawMessages.conn_open_init}
    \cup {ProtoAny(TYPE_URL_OF.conn_open_ack, v) : v \in RawMessages.conn_open_ack}
    \cup {ProtoAny(TYPE_URL_OF.chan_open_init,
                   Bytes("MsgChannelOpenInit",
                         [port_id |-> DefaultPortId,
                          channel |-> ChannelEnd("Init", o,
                                          ChannelCounterparty(DefaultPortId,
                                                              Some(DefaultChannelId)),
                                          <<id>>, "ics20"),
                          signer |-> Signer])) :
             o \in Orderings, id \in {DefaultConnectionId, MissingConnectionId}}
    \cup {ProtoAny(TYPE_URL.chan_open_try, ChannelOpenTryRaw(prev, o, id)) :
             prev \in {<<>>, to_string(DefaultChannelId)}, o \in Orderings,
             id \in {DefaultConnectionId, MissingConnectionId}}
    \cup {ProtoAny(TYPE_URL.chan_open_ack, v) : v \in RawMessages.chan_open_ack}
    \cup {ProtoAny(TYPE_URL_OF.chan_open_confirm,
                   Bytes("MsgChannelOpenConfirm",
                         [port_id |-> DefaultPortId, channel_id |-> DefaultChannelId,
                          signer |-> Signer] @@ RawProof(Some(Height(0, 1)))))}
    \cup {ProtoAny(TYPE_URL_OF.chan_close_init, v) : v \in RawMessages.chan_close_init}
    \cup {ProtoAny(TYPE_URL_OF.chan_close_confirm, v) :
             v \in RawMessages.chan_close_confirm}
    \cup {ProtoAny(TYPE_URL_OF.transfer,
                   Bytes("MsgTransfer",
                         MsgTransfer(DefaultPortId, DefaultChannelId, th,
                                     TimestampNone))) : th \in PacketTimeouts}
    \cup {ProtoAny(TYPE_URL_OF.recv_packet,
                   Bytes("MsgRecvPacket",
                         [packet |-> RoutePacket(1, Height(0, 6)), signer |-> Signer]
                             @@ RawProof(Some(Height(0, 1)))))}
    \cup {ProtoAny(TYPE_URL_OF.acknowledgement,
                   Bytes("MsgAcknowledgement",
                         [packet |-> RoutePacket(seq, th),
                          acknowledgement |-> <<1>>, signer |-> Signer]
                             @@ RawProof(Some(Height(0, 1))))) :
             seq \in 1..MaxSeq, th \in PacketTimeouts}
    \cup {ProtoAny(TYPE_URL_OF.timeout,
                   Bytes("MsgTimeout",
                         [packet |-> RoutePacket(seq, Height(0, 2)),
                          next_sequence_recv |-> 1, signer |-> Signer]
                             @@ RawProof(Some(Height(0, ph))))) :
             seq \in 1..MaxSeq, ph \in {1, 2}}
    \cup {ProtoAny(TYPE_URL_OF.timeout_on_close,
                   Bytes("MsgTimeoutOnClose",
                         [packet |-> RoutePacket(seq, th), next_sequence_recv |-> 1,
                          signer |-> Signer] @@ RawProof(Some(Height(0, 1))))) :
             seq \in 1..MaxSeq, th \in PacketTimeouts}

InitChannel ==
    /\ ctx = with_port_capability(MockContextDefault, DefaultPortId)
    /\ last = NoCall
    /\ sent = <<>>

DeliverChannel ==
    /\ last = NoCall
    /\ \E any_msg \in ChannelMessages :
        \E r \in {deliver(ctx, <<any_msg>>)} :
           /\ WithinBounds(r.ctx)
           /\ DOMAIN r.ctx.clients \subseteq {RouteClientId}
           /\ DOMAIN r.ctx.connections \subseteq {DefaultConnectionId}
           /\ DOMAIN r.ctx.channels \subseteq {<<DefaultPortId, DefaultChannelId>>}
           /\ ctx' = r.ctx
           /\ last' = [op |-> "deliver", pre |-> ctx, batch |-> <<any_msg>>,
                       result |-> r.result, taken |-> r.taken]
           /\ sent' = IF r.result.ok THEN sent \o SendsOf(r.result.val) ELSE sent
           /\ Len(sent') <= MaxSeq

NextChannel == DeliverChannel \/ Return

SpecChannel == InitChannel /\ [][NextChannel]_vars

(***************************************************************************)
(* The raw forms of MsgCreateAnyClient, MsgChannelOpenTry and              *)
(* MsgChannelOpenAck: raw messages with each optional field present and    *)
(* absent and each string well-formed and not are converted to the domain  *)
(* and back, and domain messages to raw and back.                          *)
(***************************************************************************)
RawProtos == {"MsgCreateClient", "MsgChannelOpenTry", "MsgChannelOpenAck"}

\* the identifier strings of a raw message: a well-formed one, the empty
\* string and one that spells no identifier
RawIds(id) == {to_string(id), <<>>, <<id, id>>}

RawChannels ==
    {[state |-> "Init", ordering |-> o, counterparty |-> cp,
      connection_hops |-> <<DefaultConnectionId>>, version |-> "ics20"] :
        o \in Orderings,
        cp \in {NoneV, Some(ChannelCounterparty(DefaultPortId, NoneV)),
                Some(ChannelCounterparty(DefaultPortId, Some(DefaultChannelId)))}}

RawProofs == {<<>>, <<1>>}

RawHeights == {NoneV, Some(Height(0, 0)), Some(Height(0, 1))}

\* versions: empty, whitespace only, plain, and padded with whitespace
RawVersions == {"", " ", "ics20", " ics20 "}

RawChannelOpenTryMessages ==
    {[port_id |-> port, previous_channel_id |-> prev, channel |-> chan,
      counterparty_version |-> v, proof_init |-> proof, proof_height |-> h,
      signer |-> Signer] :
        port \in {to_string(DefaultPortId), <<>>}, prev \in RawIds(DefaultChannelId),
        chan \in {NoneV} \cup {Some(x) : x \in RawChannels}, v \in RawVersions,
        proof \in RawProofs, h \in RawHeights}

RawChannelOpenAckMessages ==
    {[port_id |-> port, channel_id |-> chan, counterparty_channel_id |-> cchan,
      counterparty_version |-> v, proof_try |-> proof, proof_height |-> h,
      signer |-> Signer] :
        port \in {to_string(DefaultPortId), <<>>},
        chan \in {to_string(DefaultChannelId), <<>>},
        cchan \in {to_string(ChannelId(1)), <<>>}, v \in RawVersions,
        proof \in RawProofs, h \in RawHeights}

RawsOf(proto) ==
    CASE proto = "MsgCreateClient" -> RawCreateClientMessages
      [] proto = "MsgChannelOpenTry" -> RawChannelOpenTryMessages
      [] proto = "MsgChannelOpenAck" -> RawChannelOpenAckMessages

\* the domain messages: those the constructors make of well-formed parts,
\* and that validate_basic accepts
DomainProofs == {Proofs_new(<<1>>, Height(0, h)).val : h \in 1..2}

DomainChannels ==
    {ChannelEnd("Init", o, ChannelCounterparty(DefaultPortId, Some(DefaultChannelId)),
                <<DefaultConnectionId>>, "ics20") : o \in Orderings}

DomainsOf(proto) ==
    CASE proto = "MsgCreateClient" ->
            UNION {{MsgCreateAnyClient_new(cs, cons, Signer).val :
                       cons \in {x \in AnyConsensusStates :
                                    client_type(x) = client_type(cs)}} :
                      cs \in AnyClientStates}
      [] proto = "MsgChannelOpenTry" ->
            {m \in {MsgChannelOpenTry_new(DefaultPortId, prev, chan, v, proofs, Signer) :
                       prev \in {NoneV, Some(DefaultChannelId), Some(ChannelId(1))},
                       chan \in DomainChannels, v \in RawVersions,
                       proofs \in DomainProofs} :
                MsgChannelOpenTry_validate_basic(m).ok}
      [] proto = "MsgChannelOpenAck" ->
            {MsgChannelOpenAck_new(DefaultPortId, chan, cchan, v, proofs, Signer) :
                chan \in {DefaultChannelId, ChannelId(1)},
                cchan \in {DefaultChannelId, ChannelId(1)}, v \in RawVersions,
                proofs \in DomainProofs}

\* TryFrom<Raw> and From<Domain> of the three message types
Raw_try_from(proto, raw) ==
    CASE proto = "MsgCreateClient" -> MsgCreateAnyClient_try_from(raw)
      [] proto = "MsgChannelOpenTry" -> MsgChannelOpenTry_try_from(raw)
      [] proto = "MsgChannelOpenAck" -> MsgChannelOpenAck_try_from(raw)

Raw_from(proto, msg) ==
    CASE proto = "MsgCreateClient" -> RawMsgCreateClient_from(msg)
      [] proto = "MsgChannelOpenTry" -> RawMsgChannelOpenTry_from(msg)
      [] proto = "MsgChannelOpenAck" -> RawMsgChannelOpenAck_from(msg)

InitRaw ==
    /\ ctx = MockContextDefault
    /\ last = NoCall
    /\ sent = <<>>

\* raw -> domain, and back to raw when there is a domain message
RawDecode ==
    /\ last = NoCall
    /\ \E proto \in RawProtos :
        \E raw \in RawsOf(proto) :
           \E result \in {Raw_try_from(proto, raw)} :
              last' = [op |-> "try_from", proto |-> proto, raw |-> raw,
                       result |-> result,
                       raw_back |-> IF result.ok THEN Some(Raw_from(proto, result.val))
                                    ELSE NoneV]
    /\ UNCHANGED <<ctx, sent>>

\* domain -> raw -> domain
DomainEncode ==
    /\ last = NoCall
    /\ \E proto \in RawProtos :
        \E msg \in DomainsOf(proto) :
           \E raw \in {Raw_from(proto, msg)} :
              last' = [op |-> "from", proto |-> proto, msg |-> msg, raw |-> raw,
                       msg_back |-> Raw_try_from(proto, raw)]
    /\ UNCHANGED <<ctx, sent>>

NextRaw == RawDecode \/ DomainEncode \/ Return

SpecRaw == InitRaw /\ [][NextRaw]_vars

(***************************************************************************)
(* Properties of deliver.                                                  *)
(***************************************************************************)
\* what handling the messages of `batch` one after the other, from the i-th
\* on and starting in context c, comes to: the first failure, or the final
\* context and the events in the order they were produced
RECURSIVE InOrder(_, _, _, _)
InOrder(c, batch, i, events) ==
    IF i > Len(batch) THEN [failed |-> FALSE, ctx |-> c, events |-> events]
    ELSE LET e == decode_envelope(batch[i])
         IN IF ~e.ok THEN [failed |-> TRUE, index |-> i, err |-> e.err, ctx |-> c]
            ELSE LET d == dispatch(c, e.val)
                 IN IF ~d.ok
                    THEN [failed |-> TRUE, index |-> i, err |-> d.err, ctx |-> c]
                    ELSE InOrder(d.ctx, batch, i + 1, events \o d.val.events)

\* C1: when deliver returns an error, the caller's context is equal, field by
\* field, to the context before the call, whatever the earlier messages of the
\* batch wrote to the clone
C1_DeliverAtomic ==
    (last.op = "deliver" /\ ~last.result.ok) => ctx = last.pre

\* a failed [CreateClient ok, UpdateClient stale header] on a store without
\* clients: the create was applied to the clone, and the store has no client
C1_Witness ==
    /\ last.op = "deliver"
    /\ ~last.result.ok
    /\ Len(last.batch) = 2
    /\ last.batch[1].type_url = TYPE_URL.create_client
    /\ last.batch[2].type_url = TYPE_URL_OF.update_client
    /\ last.taken = 2
    /\ last.result.err.kind = "HandlerRaisedError"
    /\ last.result.err.source.kind = "HeaderVerificationFailure"
    /\ InOrder(last.pre, last.batch, 1, <<>>).ctx.client_ids_counter = 1
    /\ last.pre.client_ids_counter = 0
    /\ ctx.client_ids_counter = 0
    /\ DOMAIN ctx.clients = {}

\* C2: when every message succeeds, the context is the one reached by
\* dispatching the decoded envelopes in list order from the original context,
\* and the events returned are the handlers' events in that order
C2_DeliverInOrder ==
    (last.op = "deliver" /\ last.result.ok) =>
        LET r == InOrder(last.pre, last.batch, 1, <<>>)
        IN /\ ~r.failed
           /\ ctx = r.ctx
           /\ last.result.val = r.events

\* a successful [CreateClient, UpdateClient of the client just created]: the
\* update succeeds only after the create, and the two events differ
C2_Witness ==
    /\ last.op = "deliver"
    /\ last.result.ok
    /\ Len(last.batch) = 2
    /\ Len(last.result.val) = 2
    /\ last.result.val[1].kind = "CreateClient"
    /\ last.result.val[2].kind = "UpdateClient"
    /\ last.result.val[1].client_id = last.result.val[2].client_id
    /\ last.pre.client_ids_counter = 0

\* C3: deliver returns the error of the lowest-index failing message, takes
\* no message after that one, and returns no events
C3_DeliverFirstError ==
    (last.op = "deliver" /\ ~last.result.ok) =>
        LET r == InOrder(last.pre, last.batch, 1, <<>>)
        IN /\ r.failed
           /\ last.result.err = r.err
           /\ last.taken = r.index
           /\ DOMAIN last.result = {"ok", "err"}

\* a batch of two messages that both fail, with different errors, when handled
\* alone: the first one's error is returned and the second is not taken
C3_Witness ==
    /\ last.op = "deliver"
    /\ ~last.result.ok
    /\ Len(last.batch) = 2
    /\ last.taken = 1
    /\ last.result.err.kind = "UnknownMessageTypeUrl"
    /\ ~decode_envelope(last.batch[2]).ok
    /\ decode_envelope(last.batch[2]).err.kind = "MalformedMessageBytes"

(***************************************************************************)
(* Routing by type tag.                                                    *)
(***************************************************************************)
\* the recognised type tags: the layer and variant each is wrapped in and
\* the message type its bytes are decoded as
TypeTags ==
    {[type_url |-> "/ibc.core.client.v1.MsgCreateClient",
      layer |-> "Ics2Msg", variant |-> "CreateClient", proto |-> "MsgCreateClient"],
     [type_url |-> "/ibc.core.client.v1.MsgUpdateClient",
      layer |-> "Ics2Msg", variant |-> "UpdateClient", proto |-> "MsgUpdateClient"],
     [type_url |-> "/ibc.core.connection.v1.MsgConnectionOpenInit",
      layer |-> "Ics3Msg", variant |-> "ConnectionOpenInit",
      proto |-> "MsgConnectionOpenInit"],
     [type_url |-> "/ibc.core.connection.v1.MsgConnectionOpenTry",
      layer |-> "Ics3Msg", variant |-> "ConnectionOpenTry",
      proto |-> "MsgConnectionOpenTry"],
     [type_url |-> "/ibc.core.connection.v1.MsgConnectionOpenAck",
      layer |-> "Ics3Msg", variant |-> "ConnectionOpenAck",
      proto |-> "MsgConnectionOpenAck"],
     [type_url |-> "/ibc.core.connection.v1.MsgConnectionOpenConfirm",
      layer |-> "Ics3Msg", variant |-> "ConnectionOpenConfirm",
      proto |-> "MsgConnectionOpenConfirm"],
     [type_url |-> "/ibc.core.channel.v1.MsgChannelOpenInit",
      layer |-> "Ics4ChannelMsg", variant |-> "ChannelOpenInit",
      proto |-> "MsgChannelOpenInit"],
     [type_url |-> "/ibc.core.channel.v1.MsgChannelOpenTry",
      layer |-> "Ics4ChannelMsg", variant |-> "ChannelOpenTry",
      proto |-> "MsgChannelOpenTry"],
     [type_url |-> "/ibc.core.channel.v1.MsgChannelOpenAck",
      layer |-> "Ics4ChannelMsg", variant |-> "ChannelOpenAck",
      proto |-> "MsgChannelOpenAck"],
     [type_url |-> "/ibc.core.channel.v1.MsgChannelOpenConfirm",
      layer |-> "Ics4ChannelMsg", variant |-> "ChannelOpenConfirm",
      proto |-> "MsgChannelOpenConfirm"],
     [type_url |-> "/ibc.core.channel.v1.MsgChannelCloseInit",
      layer |-> "Ics4ChannelMsg", variant |-> "ChannelCloseInit",
      proto |-> "MsgChannelCloseInit"],
     [type_url |-> "/ibc.core.channel.v1.MsgChannelCloseConfirm",
      layer |-> "Ics4ChannelMsg", variant |-> "ChannelCloseConfirm",
      proto |-> "MsgChannelCloseConfirm"],
     [type_url |-> "/ibc.applications.transfer.v1.MsgTransfer",
      layer |-> "Ics20Msg", variant |-> "Transfer", proto |-> "MsgTransfer"],
     [type_url |-> "/ibc.core.channel.v1.MsgRecvPacket",
      layer |-> "Ics4PacketMsg", variant |-> "RecvPacket", proto |-> "MsgRecvPacket"],
     [type_url |-> "/ibc.core.channel.v1.MsgAcknowledgement",
      layer |-> "Ics4PacketMsg", variant |-> "AckPacket", proto |-> "MsgAcknowledgement"],
     [type_url |-> "/ibc.core.channel.v1.MsgTimeout",
      layer |-> "Ics4PacketMsg", variant |-> "ToPacket", proto |-> "MsgTimeout"],
     [type_url |-> "/ibc.core.channel.v1.MsgTimeoutOnClose",
      layer |-> "Ics4PacketMsg", variant |-> "ToClosePacket",
      proto |-> "MsgTimeoutOnClose"]}

\* the handler of a layer on an envelope of that layer
LayerHandler(layer, c, envelope) ==
    CASE layer = "Ics2Msg" -> ics2_msg_dispatcher(c, envelope)
      [] layer = "Ics3Msg" -> ics3_msg_dispatcher(c, envelope)
      [] layer = "Ics4ChannelMsg" -> ics4_msg_dispatcher(c, envelope)
      [] layer = "Ics20Msg" -> send_transfer(c, envelope.msg)
      [] layer = "Ics4PacketMsg" -> ics04_packet_msg_dispatcher(c, envelope)

\* the keeper of a layer on the result of its handler
LayerKeeper(layer, c, result) ==
    CASE layer = "Ics2Msg" -> store_client_result(c, result)
      [] layer = "Ics3Msg" -> store_connection_result(c, result)
      [] layer = "Ics4ChannelMsg" -> store_channel_result(c, result)
      [] layer \in {"Ics20Msg", "Ics4PacketMsg"} -> store_packet_result(c, result)

\* the message a deliver of one message was given, and the tag it bears
RoutedMessage == last.batch[1]

RoutedTags == {t \in TypeTags : t.type_url = RoutedMessage.type_url}

\* C4: deliver routes by type tag: the bytes under each of the 17 recognised
\* tags are decoded as the message type of that tag, wrapped in the variant of
\* the tag's layer and handled by that layer's handler and keeper; under any
\* other tag deliver fails with UnknownMessageTypeUrl carrying the tag, and
\* under a recognised tag bytes that do not decode fail with
\* MalformedMessageBytes
C4_RouteByTypeTag ==
    (last.op = "deliver" /\ Len(last.batch) = 1) =>
        IF RoutedTags = {}
        THEN /\ last.result = Err([kind |-> "UnknownMessageTypeUrl",
                                   type_url |-> RoutedMessage.type_url])
             /\ ctx = last.pre
        ELSE LET t == CHOOSE x \in RoutedTags : TRUE
                 domain_msg == decode_vec(t.proto, RoutedMessage.value)
                 envelope == Envelope(t.layer, t.variant, domain_msg.val)
                 output == LayerHandler(t.layer, last.pre, envelope)
                 stored == LayerKeeper(t.layer, last.pre, output.val.result)
             IN /\ Cardinality(RoutedTags) = 1
                /\ IF ~domain_msg.ok
                   THEN /\ ~last.result.ok
                        /\ last.result.err.kind = "MalformedMessageBytes"
                        /\ ctx = last.pre
                   ELSE IF ~output.ok
                   THEN /\ last.result = Err([kind |-> "HandlerRaisedError",
                                              source |-> output.err])
                        /\ ctx = last.pre
                   ELSE IF ~stored.ok
                   THEN /\ last.result = Err([kind |-> "KeeperRaisedError",
                                              source |-> stored.err])
                        /\ ctx = last.pre
                   ELSE /\ last.result = Ok(output.val.events)
                        /\ ctx = stored.val

\* a MsgTimeoutOnClose under its own tag, handled by the packet layer: the
\* commitment of the packet it names is gone and a TimeoutPacket event returned
C4_Witness ==
    /\ last.op = "deliver"
    /\ Len(last.batch) = 1
    /\ RoutedMessage.type_url = "/ibc.core.channel.v1.MsgTimeoutOnClose"
    /\ last.result.ok
    /\ Len(last.result.val) = 1
    /\ last.result.val[1].kind = "TimeoutPacket"
    /\ IsSome(get_packet_commitment(last.pre, <<DefaultPortId, DefaultChannelId, 2>>))
    /\ ~IsSome(get_packet_commitment(ctx, <<DefaultPortId, DefaultChannelId, 2>>))

(***************************************************************************)
(* Properties of sends made through the handlers.                          *)
(***************************************************************************)
\* the number of packets on (port, channel) pc among `sends`
SendsOn(sends, pc) ==
    Cardinality({i \in 1..Len(sends) : <<sends[i][1], sends[i][2]>> = pc})

\* the events returned by the call that has just returned
LastEvents ==
    IF last.op = "deliver" /\ last.result.ok THEN last.result.val
    ELSE IF last.op = "dispatch" /\ last.result.ok THEN last.result.val.events
    ELSE <<>>

\* C5: after a successful send on (port, channel) with sequence seq,
\* next_sequence_send of (port, channel) is its value before the send plus
\* one, a commitment exists at (port, channel, seq), and none existed there
\* before the send
C5_SendEffect ==
    (last.op = "dispatch" /\ last.result.ok /\ last.msg.layer = "Ics20Msg") =>
        LET packet == last.result.val.events[1].packet
            pc == <<packet.source_port, packet.source_channel>>
            key == <<packet.source_port, packet.source_channel, packet.sequence>>
        IN /\ Len(last.result.val.events) = 1
           /\ last.result.val.events[1].kind = "SendPacket"
           /\ IsSome(get_next_sequence_send(last.pre, pc))
           /\ get_next_sequence_send(ctx, pc)
                  = Some(Unwrap(get_next_sequence_send(last.pre, pc)) + 1)
           /\ IsSome(get_packet_commitment(ctx, key))
           /\ get_packet_commitment(last.pre, key) = NoneV

\* a second successful send on the channel: sequence 2 is committed next to
\* the commitment of sequence 1, and the next sequence is 3
C5_Witness ==
    /\ last.op = "dispatch"
    /\ last.result.ok
    /\ last.msg.layer = "Ics20Msg"
    /\ last.result.val.events[1].packet.sequence = 2
    /\ get_next_sequence_send(ctx, <<DefaultPortId, DefaultChannelId>>) = Some(3)
    /\ IsSome(get_packet_commitment(ctx, <<DefaultPortId, DefaultChannelId, 1>>))
    /\ IsSome(get_packet_commitment(ctx, <<DefaultPortId, DefaultChannelId, 2>>))
    /\ get_packet_commitment(last.pre, <<DefaultPortId, DefaultChannelId, 2>>) = NoneV

\* C10: a call of deliver or dispatch leaves every next_sequence_send in
\* place, raised by exactly the number of successful sends the call made on
\* that (port, channel), so by nothing when it made none or failed; and no two
\* successful sends on the same (port, channel) carry the same sequence
C10_SendSequenceMonotone ==
    /\ last.op \in {"deliver", "dispatch"} =>
           \A pc \in DOMAIN last.pre.next_sequence_send :
               /\ pc \in DOMAIN ctx.next_sequence_send
               /\ ctx.next_sequence_send[pc] >= last.pre.next_sequence_send[pc]
               /\ ctx.next_sequence_send[pc] =
                      last.pre.next_sequence_send[pc]
                          + SendsOn(SendsOf(LastEvents), pc)
    /\ \A i, j \in 1..Len(sent) : sent[i] = sent[j] => i = j

\* a batch of two successful sends on one channel: they carry the sequences
\* 1 and 2, and the next sequence has gone from 1 to 3
C10_Witness ==
    /\ last.op = "deliver"
    /\ last.result.ok
    /\ Len(SendsOf(LastEvents)) = 2
    /\ sent = <<<<DefaultPortId, DefaultChannelId, 1>>,
                <<DefaultPortId, DefaultChannelId, 2>>>>
    /\ last.pre.next_sequence_send[<<DefaultPortId, DefaultChannelId>>] = 1
    /\ ctx.next_sequence_send[<<DefaultPortId, DefaultChannelId>>] = 3

(***************************************************************************)
(* Properties of send_packet.                                              *)
(***************************************************************************)
\* a is strictly above b in the order of heights: by revision number first,
\* by revision height among equal revision numbers
HeightAbove(a, b) ==
    \/ a.revision_number > b.revision_number
    \/ a.revision_number = b.revision_number /\ a.revision_height > b.revision_height

\* the client state a send of packet p in context c is checked against, when
\* the channel, its connection and the connection's client are in the store
SendClientState(c, p) ==
    LET chan == c.channels[<<p.source_port, p.source_channel>>]
        conn == c.connections[chan.connection_hops[1]]
    IN c.clients[conn.client_id].client_state[1]

\* the preconditions of a send in their stated order: for each, whether
\* packet p violates it in context c.  One that cannot be evaluated because
\* what it is about is missing from the store counts as not violated; the
\* missing item violates an earlier one.
SendViolations(c, p) ==
    LET pc == <<p.source_port, p.source_channel>>
        has_chan == pc \in DOMAIN c.channels
        chan == c.channels[pc]
        has_conn == has_chan /\ chan.connection_hops[1] \in DOMAIN c.connections
        cid == c.connections[chan.connection_hops[1]].client_id
        has_client == /\ has_conn
                      /\ cid \in DOMAIN c.clients
                      /\ c.clients[cid].client_state # <<>>
        cs == c.clients[cid].client_state[1]
        has_cons == has_client /\ cs.header.height \in DOMAIN c.clients[cid].consensus_states
        cons == c.clients[cid].consensus_states[cs.header.height]
    IN <<~has_chan,
         has_chan /\ chan.state = "Closed",
         p.source_port \notin DOMAIN c.port_capabilities,
         has_chan /\ chan.remote # [port_id |-> p.destination_port,
                                     channel_id |-> <<p.destination_channel>>],
         has_chan /\ ~has_conn,
         has_conn /\ (~has_client \/ cs.frozen),
         has_client /\ p.timeout_height # Height(0, 0)
                    /\ ~HeightAbove(p.timeout_height, cs.header.height),
         has_client /\ (~has_cons \/ (/\ cons.header.timestamp # 0
                                      /\ p.timeout_timestamp # 0
                                      /\ cons.header.timestamp > p.timeout_timestamp)),
         pc \notin DOMAIN c.next_sequence_send \/ c.next_sequence_send[pc] # p.sequence>>

\* the errors each precondition is reported by, in the same order
SendErrors ==
    <<{"ChannelNotFound"}, {"ChannelClosed"},
      {"InvalidPortCapability", "NoPortCapability"}, {"InvalidPacketCounterparty"},
      {"MissingConnection"}, {"MissingClientState", "FrozenClient"},
      {"LowPacketHeight"}, {"MissingClientConsensusState", "LowPacketTimestamp"},
      {"MissingNextSendSeq", "InvalidPacketSequence"}>>

\* the first precondition violated, 0 when none is
FirstViolation(c, p) ==
    LET v == SendViolations(c, p)
        violated == {i \in 1..Len(v) : v[i]}
    IN IF violated = {} THEN 0
       ELSE CHOOSE i \in violated : \A j \in violated : i <= j

\* C6: send_packet reports the first violated precondition of the stated
\* order, ChannelNotFound(source port, source channel) when the channel is
\* absent whatever else is wrong, and succeeds when none is violated
C6_SendPreconditionOrder ==
    last.op = "send_packet" =>
        LET first == FirstViolation(last.pre, last.packet)
        IN IF first = 0 THEN last.result.ok
           ELSE /\ ~last.result.ok
                /\ last.result.err.kind \in SendErrors[first]
                /\ first = 1 =>
                       last.result.err = [kind |-> "ChannelNotFound",
                                          port_id |-> last.packet.source_port,
                                          channel_id |-> last.packet.source_channel]

\* a packet sent on a Closed channel, without a port capability, with a low
\* timeout height and a wrong sequence: ChannelClosed is the error
C6_Witness ==
    /\ last.op = "send_packet"
    /\ LET v == SendViolations(last.pre, last.packet)
       IN ~v[1] /\ v[2] /\ v[3] /\ v[7] /\ v[9]
    /\ ~last.result.ok
    /\ last.result.err.kind = "ChannelClosed"

\* C7: on an existing channel that is not Closed and whose source port has no
\* capability, send_packet fails with InvalidPortCapability or
\* NoPortCapability, whether or not the connection, the client and the send
\* sequence exist
C7_SendWithoutCapability ==
    (/\ last.op = "send_packet"
     /\ <<last.packet.source_port, last.packet.source_channel>>
            \in DOMAIN last.pre.channels
     /\ last.pre.channels[<<last.packet.source_port,
                            last.packet.source_channel>>].state # "Closed"
     /\ last.packet.source_port \notin DOMAIN last.pre.port_capabilities)
    => /\ ~last.result.ok
       /\ last.result.err.kind \in {"InvalidPortCapability", "NoPortCapability"}

\* the capability is the only thing missing: connection, client and a matching
\* send sequence are there, and the send fails for the capability
C7_Witness ==
    /\ last.op = "send_packet"
    /\ LET v == SendViolations(last.pre, last.packet)
       IN v[3] /\ \A i \in (1..Len(v)) \ {3} : ~v[i]
    /\ last.result = Err([kind |-> "NoPortCapability",
                          port_id |-> last.packet.source_port])

\* C8: a send that has passed the checks before the height check fails with
\* LowPacketHeight(latest_height, timeout_height) exactly when its timeout
\* height is not zero and is lower than or equal to the client's latest height
\* in the (revision_number, revision_height) order; a zero timeout height
\* never fails so, an equal one does; no other send fails with LowPacketHeight
C8_LowPacketHeight ==
    last.op = "send_packet" =>
        LET v == SendViolations(last.pre, last.packet)
            timeout == last.packet.timeout_height
            latest == SendClientState(last.pre, last.packet).header.height
            low == [kind |-> "LowPacketHeight", latest_height |-> latest,
                    timeout_height |-> timeout]
        IN IF \A i \in 1..6 : ~v[i]
           THEN /\ (last.result = Err(low))
                       <=> (timeout # Height(0, 0) /\ ~HeightAbove(timeout, latest))
                /\ timeout = Height(0, 0) =>
                       (last.result.ok \/ last.result.err.kind # "LowPacketHeight")
                /\ timeout = latest /\ timeout # Height(0, 0) => last.result = Err(low)
                /\ ~last.result.ok /\ last.result.err.kind = "LowPacketHeight"
                       => last.result = Err(low)
           ELSE ~last.result.ok /\ last.result.err.kind # "LowPacketHeight"

\* a timeout height equal to the client's latest height is rejected
C8_Witness ==
    /\ last.op = "send_packet"
    /\ last.packet.timeout_height = Height(0, 1)
    /\ last.result = Err([kind |-> "LowPacketHeight",
                          latest_height |-> Height(0, 1),
                          timeout_height |-> Height(0, 1)])

\* C9: send_packet succeeds only when the packet's sequence is the stored
\* next_sequence_send of its channel; with any other sequence a send that has
\* passed the earlier checks fails with
\* InvalidPacketSequence(packet.sequence, next_sequence_send); and without a
\* stored next_sequence_send no send succeeds
C9_SendSequence ==
    last.op = "send_packet" =>
        LET pc == <<last.packet.source_port, last.packet.source_channel>>
            v == SendViolations(last.pre, last.packet)
            stored == pc \in DOMAIN last.pre.next_sequence_send
            next == last.pre.next_sequence_send[pc]
        IN /\ last.result.ok => stored /\ last.packet.sequence = next
           /\ ~stored => ~last.result.ok
           /\ (stored /\ last.packet.sequence # next) =>
                  /\ ~last.result.ok
                  /\ (\A i \in 1..8 : ~v[i]) =>
                         last.result.err = [kind |-> "InvalidPacketSequence",
                                            sequence |-> last.packet.sequence,
                                            next_seq_send |-> next]

\* a send with sequence 3 on a channel whose next sequence is 2
C9_Witness ==
    /\ last.op = "send_packet"
    /\ last.result = Err([kind |-> "InvalidPacketSequence", sequence |-> 3,
                          next_seq_send |-> 2])

\* the source channel of the packet of the last send, when it is in the store
SendChannel == last.pre.channels[<<last.packet.source_port, last.packet.source_channel>>]

HasSendChannel ==
    <<last.packet.source_port, last.packet.source_channel>> \in DOMAIN last.pre.channels

\* C11: on a source channel in state Closed send_packet fails with
\* ChannelClosed(source channel); on a channel in Init, TryOpen or Open it
\* never fails with ChannelClosed, and each of the three states has sends
\* that succeed when nothing else is wrong
C11_SendOnClosedChannel ==
    last.op = "send_packet" =>
        LET closed == Err([kind |-> "ChannelClosed",
                           channel_id |-> last.packet.source_channel])
            v == SendViolations(last.pre, last.packet)
        IN /\ (HasSendChannel /\ SendChannel.state = "Closed") => last.result = closed
           /\ (~last.result.ok /\ last.result.err.kind = "ChannelClosed") =>
                  /\ HasSendChannel
                  /\ SendChannel.state = "Closed"
                  /\ last.result = closed
           /\ (/\ HasSendChannel
               /\ SendChannel.state \in {"Init", "TryOpen", "Open"}
               /\ \A i \in (1..Len(v)) \ {2} : ~v[i]) => last.result.ok

\* a send on a Closed channel with nothing else wrong: capability, counterparty,
\* connection, client, timeouts and sequence would all have let it through
C11_Witness ==
    /\ last.op = "send_packet"
    /\ HasSendChannel
    /\ SendChannel.state = "Closed"
    /\ LET v == SendViolations(last.pre, last.packet)
       IN \A i \in (1..Len(v)) \ {2} : ~v[i]
    /\ last.result = Err([kind |-> "ChannelClosed",
                          channel_id |-> last.packet.source_channel])

\* C12: a send succeeds only when the counterparty of the source channel is
\* (destination_port, Some(destination_channel)) of the packet; a send that
\* has passed the earlier checks with another counterparty fails with
\* InvalidPacketCounterparty(destination_port, destination_channel); on a
\* channel whose counterparty channel id is absent no send succeeds
C12_SendCounterparty ==
    last.op = "send_packet" =>
        LET v == SendViolations(last.pre, last.packet)
            same == /\ SendChannel.remote.port_id = last.packet.destination_port
                    /\ SendChannel.remote.channel_id
                           = <<last.packet.destination_channel>>
        IN /\ last.result.ok => HasSendChannel /\ same
           /\ (HasSendChannel /\ ~same) =>
                  /\ ~last.result.ok
                  /\ (\A i \in 1..3 : ~v[i]) =>
                         last.result = Err([kind |-> "InvalidPacketCounterparty",
                                            port_id |-> last.packet.destination_port,
                                            channel_id |->
                                                last.packet.destination_channel])
           /\ (HasSendChannel /\ SendChannel.remote.channel_id = <<>>) =>
                  ~last.result.ok

\* a send on a channel whose counterparty channel id is absent, nothing else
\* being wrong
C12_Witness ==
    /\ last.op = "send_packet"
    /\ HasSendChannel
    /\ SendChannel.remote.channel_id = <<>>
    /\ SendChannel.remote.port_id = last.packet.destination_port
    /\ LET v == SendViolations(last.pre, last.packet)
       IN \A i \in (1..Len(v)) \ {4} : ~v[i]
    /\ last.result = Err([kind |-> "InvalidPacketCounterparty",
                          port_id |-> last.packet.destination_port,
                          channel_id |-> last.packet.destination_channel])

\* the consensus state of the client of the last send at the client's latest
\* height, when the checks before the timestamp check have found it
SendConsensusTimestamp ==
    LET chan == SendChannel
        cid == last.pre.connections[chan.connection_hops[1]].client_id
        cs == last.pre.clients[cid].client_state[1]
    IN last.pre.clients[cid].consensus_states[cs.header.height].header.timestamp

\* the outcome of comparing the timestamp `latest` with the timeout `timeout`
Expiry(latest, timeout) ==
    IF latest = 0 \/ timeout = 0 THEN "InvalidTimestamp"
    ELSE IF latest > timeout THEN "Expired" ELSE "NotExpired"

\* C13: a send that has reached the timestamp check fails with
\* LowPacketTimestamp exactly when the timestamp of the consensus state at the
\* client's latest height finds the packet's timeout timestamp Expired; with
\* NotExpired and with InvalidTimestamp it goes on to the sequence check; and
\* no other send fails with LowPacketTimestamp
C13_LowPacketTimestamp ==
    last.op = "send_packet" =>
        LET v == SendViolations(last.pre, last.packet)
            pc == <<last.packet.source_port, last.packet.source_channel>>
            low == Err([kind |-> "LowPacketTimestamp"])
            reached == /\ \A i \in 1..7 : ~v[i]
                       /\ SendClientState(last.pre, last.packet).header.height
                              \in DOMAIN last.pre.clients[
                                      last.pre.connections[
                                          SendChannel.connection_hops[1]].client_id
                                  ].consensus_states
        IN IF reached
           THEN LET e == Expiry(SendConsensusTimestamp, last.packet.timeout_timestamp)
                IN /\ (last.result = low) <=> (e = "Expired")
                   /\ e \in {"NotExpired", "InvalidTimestamp"} =>
                          \/ last.result.ok
                          \/ last.result.err.kind
                                 \in {"MissingNextSendSeq", "InvalidPacketSequence"}
           ELSE last.result # low

\* a send whose timeout timestamp 1 is before the timestamp 2 of the consensus
\* state, the timeout height being fine
C13_Witness ==
    /\ last.op = "send_packet"
    /\ last.packet.timeout_timestamp = 1
    /\ LET v == SendViolations(last.pre, last.packet)
       IN (\A i \in 1..7 : ~v[i]) /\ ~v[9]
    /\ last.result = Err([kind |-> "LowPacketTimestamp"])
    /\ SendConsensusTimestamp = 2

\* C14: a successful send_packet returns exactly one event, a SendPacket
\* carrying the packet submitted; a failed one returns an error and nothing
\* else, hence no event
C14_SendEvent ==
    last.op = "send_packet" =>
        IF last.result.ok
        THEN /\ Len(last.result.val.events) = 1
             /\ last.result.val.events[1].kind = "SendPacket"
             /\ last.result.val.events[1].packet = last.packet
        ELSE DOMAIN last.result = {"ok", "err"}

\* a successful send of a packet with data
C14_Witness ==
    /\ last.op = "send_packet"
    /\ last.result.ok
    /\ last.result.val.events
           = <<[kind |-> "SendPacket", height |-> last.packet.timeout_height,
                packet |-> last.packet]>>
    /\ last.packet.sequence = 2

(***************************************************************************)
(* Properties of the client handlers.                                      *)
(***************************************************************************)
\* the call that just returned handled one message of the given type URL
\* and succeeded
Accepted(type_url) ==
    /\ last.op = "deliver"
    /\ Len(last.batch) = 1
    /\ last.batch[1].type_url = type_url
    /\ last.result.ok

\* the decoded client message of the call that just returned
ClientMsg == decode_envelope(last.batch[1]).val.msg

\* C15: every successful CreateClient mints a client id that was not in the
\* store before, leaves every other record as it was, increments the client
\* counter by exactly one, and leaves the new record with the message's client
\* state and exactly one consensus state, stored at client_state.latest_height()
C15_CreateClientFresh ==
    Accepted(TYPE_URL.create_client) =>
        /\ Len(last.result.val) = 1
        /\ last.result.val[1].kind = "CreateClient"
        /\ LET client_id == last.result.val[1].client_id
           IN /\ client_id \notin DOMAIN last.pre.clients
              /\ DOMAIN ctx.clients = DOMAIN last.pre.clients \cup {client_id}
              /\ \A id \in DOMAIN last.pre.clients : ctx.clients[id] = last.pre.clients[id]
              /\ ctx.client_ids_counter = last.pre.client_ids_counter + 1
              /\ ctx.clients[client_id].client_state = Some(ClientMsg.client_state)
              /\ DOMAIN ctx.clients[client_id].consensus_states
                    = {latest_height(ClientMsg.client_state)}
              /\ ctx.clients[client_id].consensus_states[
                     latest_height(ClientMsg.client_state)] = ClientMsg.consensus_state

\* a client of the scheme of one already stored is created: only the counter
\* keeps the two identifiers apart
C15_Witness ==
    /\ Accepted(TYPE_URL.create_client)
    /\ last.pre.client_ids_counter = 1
    /\ \E id \in DOMAIN last.pre.clients :
          last.pre.clients[id].client_type = client_type(ClientMsg.client_state)
    /\ Cardinality(DOMAIN ctx.clients) = 2

\* the record of the client an UpdateClient message names, before and after
\* the call that just returned
UpdatedBefore == last.pre.clients[ClientMsg.client_id]

UpdatedAfter == ctx.clients[ClientMsg.client_id]

\* C16: for every UpdateClient whose header h is accepted, the record's latest
\* height afterwards equals h.height and its consensus-state map has gained
\* exactly one entry, at h.height, every earlier entry being kept unchanged
C16_UpdateClientEffect ==
    Accepted(TYPE_URL_OF.update_client) =>
        LET h == ClientMsg.header.header.height
        IN /\ latest_height(Unwrap(UpdatedAfter.client_state)) = h
           /\ h \notin DOMAIN UpdatedBefore.consensus_states
           /\ DOMAIN UpdatedAfter.consensus_states
                 = DOMAIN UpdatedBefore.consensus_states \cup {h}
           /\ \A k \in DOMAIN UpdatedBefore.consensus_states :
                 UpdatedAfter.consensus_states[k] = UpdatedBefore.consensus_states[k]
           /\ UpdatedAfter.consensus_states[h].header = ClientMsg.header.header

\* a second header is accepted by a client that already holds two consensus
\* states
C16_Witness ==
    /\ Accepted(TYPE_URL_OF.update_client)
    /\ Cardinality(DOMAIN UpdatedBefore.consensus_states) = 2
    /\ Cardinality(DOMAIN UpdatedAfter.consensus_states) = 3

\* the UpdateClient message of the call that just returned names a stored
\* client and carries a header of that client's scheme
UpdateOfStoredClient ==
    /\ last.op = "deliver"
    /\ last.batch[1].type_url = TYPE_URL_OF.update_client
    /\ ClientMsg.client_id \in DOMAIN last.pre.clients
    /\ ClientMsg.header.type = UpdatedBefore.client_type

\* C17: an UpdateClient whose header height is at or below the client's
\* current latest height fails with a header-verification failure and leaves
\* the store unchanged, so a header that was accepted before fails when it is
\* replayed; an accepted update strictly increases the latest height
C17_StaleHeaderRejected ==
    /\ (/\ UpdateOfStoredClient
        /\ HeightLE(ClientMsg.header.header.height,
                    latest_height(Unwrap(UpdatedBefore.client_state))))
       => /\ ~last.result.ok
          /\ last.result.err.kind = "HandlerRaisedError"
          /\ last.result.err.source.kind = "HeaderVerificationFailure"
          /\ ctx = last.pre
    /\ Accepted(TYPE_URL_OF.update_client)
       => HeightAbove(latest_height(Unwrap(UpdatedAfter.client_state)),
                      latest_height(Unwrap(UpdatedBefore.client_state)))

\* the header a client accepted last is submitted again, and rejected
C17_Witness ==
    /\ UpdateOfStoredClient
    /\ UpdatedBefore.client_type = "Mock"
    /\ Cardinality(DOMAIN UpdatedBefore.consensus_states) = 2
    /\ ClientMsg.header.header.height = latest_height(Unwrap(UpdatedBefore.client_state))
    /\ ~last.result.ok
    /\ ctx = last.pre

\* the arguments of the AnyClient call that just returned are of the client's
\* scheme: the client state and, for an update, the header
SchemesAgree ==
    /\ last.client_state.type = last.def
    /\ last.op = "check_header_and_update_state" => last.header.type = last.def

\* C18: for an AnyClient of scheme S, check_header_and_update_state and each
\* of the eight verify_* functions return ClientArgsTypeMismatch(S) whenever
\* the client state (or, for an update, the header) is of another scheme, and
\* no scheme verifier is called; when the schemes agree the call is forwarded
\* to S's verifier, once, and its result is returned, an accepted update
\* carrying a client state and a consensus state of scheme S
C18_AnyClientSchemes ==
    last.op \in AnyClientFunctions =>
        /\ ~SchemesAgree =>
              /\ last.calls = <<>>
              /\ last.result = Err([kind |-> "ClientArgsTypeMismatch",
                                    client_type |-> last.def])
        /\ SchemesAgree =>
              /\ last.calls = <<[client |-> last.def, fn |-> last.op]>>
              /\ last.result = ClientDef_forward(last.op, last.def, last.client_state,
                                                 last.header)
              /\ (last.op = "check_header_and_update_state" /\ last.result.ok)
                    => /\ last.result.val[1].type = last.def
                       /\ last.result.val[2].type = last.def

\* a Mock client is handed a Mock client state with a Tendermint header that
\* its verifier would accept, and refuses it
C18_Witness ==
    /\ last.op = "check_header_and_update_state"
    /\ last.def = "Mock"
    /\ last.client_state.type = "Mock"
    /\ last.header.type = "Tendermint"
    /\ HeightAbove(last.header.header.height, latest_height(last.client_state))
    /\ last.calls = <<>>
    /\ ~last.result.ok

\* what constructing a MsgCreateAnyClient from the two states must give: the
\* message when their client types are equal, and otherwise
\* RawClientAndConsensusStateTypesMismatch carrying both types
CreateMsgExpected(cs, cons, result) ==
    IF client_type(cs) = client_type(cons)
    THEN result = Ok([client_state |-> cs, consensus_state |-> cons, signer |-> Signer])
    ELSE result = Err([kind |-> "RawClientAndConsensusStateTypesMismatch",
                       state_type |-> client_type(cs),
                       consensus_type |-> client_type(cons)])

\* the raw message just decoded holds a client state and a consensus state of
\* supported schemes
RawStatesDecode ==
    /\ last.raw.client_state # NoneV
    /\ last.raw.consensus_state # NoneV
    /\ Unwrap(last.raw.client_state).type \in ClientTypes
    /\ Unwrap(last.raw.consensus_state).type \in ClientTypes

\* C19: MsgCreateAnyClient construction, by new and by decoding from raw,
\* succeeds if and only if the client state's client type equals the consensus
\* state's client type, and otherwise fails with
\* RawClientAndConsensusStateTypesMismatch carrying both types; a raw message
\* in which a state is missing or of no known scheme has no two types to
\* compare, and its decoding fails with InvalidRawClientState or
\* InvalidRawConsensusState
C19_CreateMsgTypes ==
    /\ last.op = "MsgCreateAnyClient::new"
       => CreateMsgExpected(last.client_state, last.consensus_state, last.result)
    /\ (last.op = "MsgCreateAnyClient::try_from" /\ RawStatesDecode)
       => CreateMsgExpected(Unwrap(last.raw.client_state),
                            Unwrap(last.raw.consensus_state), last.result)
    /\ (last.op = "MsgCreateAnyClient::try_from" /\ ~RawStatesDecode)
       => /\ ~last.result.ok
          /\ last.result.err.kind \in {"InvalidRawClientState", "InvalidRawConsensusState"}

\* a raw message with a Tendermint client state and a Mock consensus state is
\* decoded, and refused with both types
C19_Witness ==
    /\ last.op = "MsgCreateAnyClient::try_from"
    /\ RawStatesDecode
    /\ Unwrap(last.raw.client_state).type = "Tendermint"
    /\ Unwrap(last.raw.consensus_state).type = "Mock"
    /\ last.result = Err([kind |-> "RawClientAndConsensusStateTypesMismatch",
                          state_type |-> "Tendermint", consensus_type |-> "Mock"])

\* the client type of a record agrees with the type of its client state and
\* of every consensus state stored in it
RecordTypesAgree(record) ==
    /\ record.client_state # NoneV
       => client_type(Unwrap(record.client_state)) = record.client_type
    /\ \A h \in DOMAIN record.consensus_states :
          client_type(record.consensus_states[h]) = record.client_type

\* C20: in every state reached through the client handlers and the keepers
\* they call, each client record's client_type agrees with the type of its
\* client_state and with the type of every consensus state stored in it
C20_ClientTypesAgree ==
    \A id \in DOMAIN ctx.clients : RecordTypesAgree(ctx.clients[id])

\* the store holds a Mock client that was updated and a Tendermint client,
\* and an UpdateClient carrying a header of the other scheme has just been
\* refused
C20_Witness ==
    /\ \E a \in DOMAIN ctx.clients, b \in DOMAIN ctx.clients :
          /\ ctx.clients[a].client_type = "Mock"
          /\ ctx.clients[b].client_type = "Tendermint"
          /\ ctx.clients[a].client_state # NoneV
          /\ ctx.clients[b].client_state # NoneV
          /\ Cardinality(DOMAIN ctx.clients[a].consensus_states) = 2
    /\ last.op = "deliver"
    /\ last.batch[1].type_url = TYPE_URL_OF.update_client
    /\ ClientMsg.client_id \in DOMAIN ctx.clients
    /\ ClientMsg.header.type # ctx.clients[ClientMsg.client_id].client_type
    /\ ~last.result.ok

(***************************************************************************)
(* Properties of the identifier counters.                                  *)
(***************************************************************************)
\* the three identifier counters of a context
Counters(c) ==
    <<c.client_ids_counter, c.connection_ids_counter, c.channel_ids_counter>>

\* the number of clients, connections and channels in a context
Entities(c) ==
    <<Cardinality(DOMAIN c.clients), Cardinality(DOMAIN c.connections),
      Cardinality(DOMAIN c.channels)>>

\* C21: over deliver calls the client, connection and channel counters never
\* decrease; each allocation increases its counter by exactly one, so that a
\* call raises each counter by the number of entities it has added; a failed
\* deliver leaves the three counters at their values before the call; and no
\* two entities share an allocated identifier: the identifiers in the store
\* are exactly those made from the counter values below the counter, one
\* entity each
C21_CountersMonotone ==
    /\ \A id \in DOMAIN ctx.clients : id[2] \in 0..(ctx.client_ids_counter - 1)
    /\ DOMAIN ctx.connections
          = {ConnectionId(n) : n \in 0..(ctx.connection_ids_counter - 1)}
    /\ DOMAIN ctx.channels
          = {<<DefaultPortId, ChannelId(n)>> : n \in 0..(ctx.channel_ids_counter - 1)}
    /\ Entities(ctx) = Counters(ctx)
    /\ last.op = "deliver" =>
          /\ \A i \in 1..3 : Counters(ctx)[i] >= Counters(last.pre)[i]
          /\ \A i \in 1..3 : Counters(ctx)[i] - Counters(last.pre)[i]
                                = Entities(ctx)[i] - Entities(last.pre)[i]
          /\ \A id \in DOMAIN last.pre.clients :
                ctx.clients[id] = last.pre.clients[id]
          /\ ~last.result.ok => Counters(ctx) = Counters(last.pre)
          /\ (last.result.ok /\ Len(last.batch) = 1) =>
                \A i \in 1..3 : Counters(ctx)[i] - Counters(last.pre)[i] \in {0, 1}

\* a batch whose first message allocated a connection identifier and whose
\* second message failed has been rolled back, in a store that holds a
\* client, a connection and a channel
C21_Witness ==
    /\ last.op = "deliver"
    /\ Len(last.batch) = 2
    /\ last.batch[1].type_url = TYPE_URL_OF.conn_open_init
    /\ last.taken = 2
    /\ ~last.result.ok
    /\ Counters(ctx) = <<1, 1, 1>>
    /\ Counters(last.pre) = <<1, 1, 1>>

(***************************************************************************)
(* Properties of packet handling through the router.                       *)
(***************************************************************************)
\* the call that just returned delivered one packet message of the given type
PacketCall(t) ==
    /\ last.op = "deliver"
    /\ Len(last.batch) = 1
    /\ last.batch[1].type_url = RouteTypeUrls[t]
    /\ decode_envelope(last.batch[1]).ok

\* the message of that call, its packet and the receiving end's receipt key
PacketMsg == decode_envelope(last.batch[1]).val.msg

RecvKey ==
    <<PacketMsg.packet.destination_port, PacketMsg.packet.destination_channel,
      PacketMsg.packet.sequence>>

\* the packet's receiving channel was stored as an unordered / ordered one
RecvChannelOrdering(c) ==
    LET pc == <<RecvKey[1], RecvKey[2]>>
    IN IF pc \in DOMAIN c.channels THEN c.channels[pc].ordering ELSE "None"

\* the store without the receipt of the packet
WithoutReceipt(c) == [c EXCEPT !.packet_receipt = MapRemove(@, RecvKey)]

\* C22: on an unordered channel a receipt is stored by, and only by, a
\* successful RecvPacket and is never removed; a RecvPacket whose
\* (port, channel, sequence) already has a receipt fails and leaves the store
\* unchanged, and it fails with PacketReceived whenever nothing else is wrong
\* with it, that is whenever it would have been received had the receipt not
\* been there (otherwise the check that fails first gives the kind)
C22_ReceiveOnce ==
    /\ last.op = "deliver" =>
          /\ DOMAIN last.pre.packet_receipt \subseteq DOMAIN ctx.packet_receipt
          /\ DOMAIN ctx.packet_receipt # DOMAIN last.pre.packet_receipt =>
                PacketCall("recv_packet") /\ last.result.ok
    /\ (PacketCall("recv_packet") /\ RecvChannelOrdering(last.pre) = "Unordered") =>
          /\ last.result.ok =>
                /\ RecvKey \notin DOMAIN last.pre.packet_receipt
                /\ RecvKey \in DOMAIN ctx.packet_receipt
          /\ RecvKey \in DOMAIN last.pre.packet_receipt =>
                /\ ~last.result.ok
                /\ ctx = last.pre
                /\ last.result.err.kind = "HandlerRaisedError"
                /\ recv_packet_process(WithoutReceipt(last.pre), PacketMsg).ok =>
                      last.result.err.source.kind = "PacketReceived"

\* a packet received on an open unordered channel has been delivered again
\* and refused as already received, the store unchanged
C22_Witness ==
    /\ PacketCall("recv_packet")
    /\ RecvChannelOrdering(last.pre) = "Unordered"
    /\ RecvKey \in DOMAIN last.pre.packet_receipt
    /\ ~last.result.ok
    /\ last.result.err.kind = "HandlerRaisedError"
    /\ last.result.err.source.kind = "PacketReceived"
    /\ ctx = last.pre

\* the (port, channel) the packet is received on, and the sequence stored
\* for it in a context
RecvChannel == <<RecvKey[1], RecvKey[2]>>

NextSequenceRecv(c) == c.next_sequence_recv[RecvChannel]

\* nothing but the sequence check stands in the way of the packet: its
\* channel is Open and its timeout height is zero or above the host height
\* (the connection is open, the client active and the proof's consensus
\* state present in every store these messages make)
RecvOtherwiseAccepted ==
    /\ last.pre.channels[RecvChannel].state = "Open"
    /\ \/ HeightIsZero(PacketMsg.packet.timeout_height)
       \/ ~HeightLE(PacketMsg.packet.timeout_height, host_height(last.pre))

\* C23: on an ordered channel a RecvPacket with sequence s (on an open
\* channel, not timed out) succeeds if and only if s is the stored
\* next_sequence_recv, and is refused with InvalidPacketSequence otherwise; a
\* successful receive raises next_sequence_recv by exactly one and nothing
\* else changes it, so the accepted sequences are 1, 2, 3, ... without gap
\* or repeat
C23_OrderedReceive ==
    /\ DOMAIN ctx.next_sequence_recv = DOMAIN ctx.channels
    /\ last.op = "deliver" =>
          \A pc \in DOMAIN last.pre.next_sequence_recv :
             /\ ctx.next_sequence_recv[pc] - last.pre.next_sequence_recv[pc] \in {0, 1}
             /\ ctx.next_sequence_recv[pc] # last.pre.next_sequence_recv[pc] =>
                   /\ PacketCall("recv_packet")
                   /\ last.result.ok
                   /\ pc = RecvChannel
                   /\ last.pre.channels[pc].ordering = "Ordered"
    /\ (PacketCall("recv_packet") /\ RecvChannelOrdering(last.pre) = "Ordered") =>
          /\ last.result.ok <=>
                (RecvKey[3] = NextSequenceRecv(last.pre) /\ RecvOtherwiseAccepted)
          /\ last.result.ok =>
                ctx = store_next_sequence_recv(last.pre, RecvChannel, RecvKey[3] + 1)
          /\ ~last.result.ok =>
                /\ ctx = last.pre
                /\ last.result.err.kind = "HandlerRaisedError"
                /\ RecvOtherwiseAccepted =>
                      last.result.err.source
                          = [kind |-> "InvalidPacketSequence", sequence |-> RecvKey[3],
                             next_seq_recv |-> NextSequenceRecv(last.pre)]

\* sequence 2 has just been received on an ordered channel that expected 2
\* and now expects 3
C23_Witness ==
    /\ PacketCall("recv_packet")
    /\ RecvChannelOrdering(last.pre) = "Ordered"
    /\ last.result.ok
    /\ RecvKey[3] = 2
    /\ NextSequenceRecv(last.pre) = 2
    /\ NextSequenceRecv(ctx) = 3

(***************************************************************************)
(* Properties of the handshakes.                                           *)
(***************************************************************************)
\* the channel ends of a context that are Open over an Open connection whose
\* client is stored and not frozen
OpenChannels(c) ==
    {pc \in DOMAIN c.channels :
        LET chan == c.channels[pc]
            cid == chan.connection_hops[1]
        IN /\ chan.state = "Open"
           /\ cid \in DOMAIN c.connections
           /\ c.connections[cid].state = "Open"
           /\ c.connections[cid].client_id \in DOMAIN c.clients
           /\ c.clients[c.connections[cid].client_id].client_state # NoneV
           /\ ~Unwrap(c.clients[c.connections[cid].client_id].client_state).frozen}

\* C24: from the empty store, CreateClient, ConnOpenInit, ConnOpenTry,
\* ConnOpenAck, ConnOpenConfirm, ChanOpenInit, ChanOpenTry, ChanOpenAck and
\* ChanOpenConfirm delivered in this order succeed at every step, each step
\* emitting exactly one event, of the kind of its message, and the final
\* store holds an Open channel over an Open connection over a client that is
\* not frozen; and whenever one of these messages succeeds, in any order, it
\* emits exactly one event, of its kind
C24_HandshakeOpens ==
    /\ \A k \in DOMAIN HandshakeMessages :
          /\ HandshakeRun(k).result.ok
          /\ Len(HandshakeRun(k).result.val) = 1
          /\ HandshakeRun(k).result.val[1].kind = HandshakeEvents[k]
    /\ OpenChannels(HandshakeRun(Len(HandshakeTypes)).ctx) # {}
    /\ (last.op = "deliver" /\ last.result.ok) =>
          \E k \in DOMAIN HandshakeMessages :
             /\ last.batch = <<HandshakeMessages[k]>>
             /\ Len(last.result.val) = 1
             /\ last.result.val[1].kind = HandshakeEvents[k]

\* the ninth message has just succeeded on the store the first eight made,
\* and the store is the final one, with its open channel
C24_Witness ==
    /\ last.op = "deliver"
    /\ last.batch = <<HandshakeMessages[9]>>
    /\ last.result.ok
    /\ last.pre = HandshakeRun(8).ctx
    /\ ctx = HandshakeRun(9).ctx
    /\ OpenChannels(ctx) # {}

(***************************************************************************)
(* Properties of the life of a channel.                                    *)
(***************************************************************************)
\* the channel a channel message of the call that just returned addresses
AddressedChannel == <<PacketMsg.port_id, PacketMsg.channel_id>>

\* C25: closing is irreversible: a channel end that is Closed before a call
\* is the same Closed end after it, whatever handshake, close or packet
\* message the call delivered; and a ChanCloseInit or ChanCloseConfirm
\* addressed to a Closed channel fails, with InvalidChannelState, and leaves
\* the store unchanged
C25_ClosedIsTerminal ==
    /\ last.op = "deliver" =>
          \A pc \in DOMAIN last.pre.channels :
             last.pre.channels[pc].state = "Closed" =>
                /\ pc \in DOMAIN ctx.channels
                /\ ctx.channels[pc] = last.pre.channels[pc]
    /\ \A t \in {"chan_close_init", "chan_close_confirm"} :
          (/\ PacketCall(t)
           /\ AddressedChannel \in DOMAIN last.pre.channels
           /\ last.pre.channels[AddressedChannel].state = "Closed") =>
              /\ ~last.result.ok
              /\ ctx = last.pre
              /\ last.result.err.kind = "HandlerRaisedError"
              /\ last.result.err.source.kind = "InvalidChannelState"

\* a ChanCloseConfirm has just been refused on a channel that ChanCloseInit
\* had closed
C25_Witness ==
    /\ PacketCall("chan_close_confirm")
    /\ AddressedChannel \in DOMAIN last.pre.channels
    /\ last.pre.channels[AddressedChannel].state = "Closed"
    /\ ~last.result.ok
    /\ ctx.channels[AddressedChannel].state = "Closed"

\* the (port, channel, sequence) on the sending side of the packet of the
\* message, and the channel it was sent on
SentKey ==
    <<PacketMsg.packet.source_port, PacketMsg.packet.source_channel,
      PacketMsg.packet.sequence>>

SentChannel == <<SentKey[1], SentKey[2]>>

\* the commitment of the packet of the message is stored in a context
Committed(c) ==
    /\ SentKey \in DOMAIN c.packet_commitment
    /\ c.packet_commitment[SentKey]
          = hash(<<PacketMsg.packet.timeout_timestamp, PacketMsg.packet.timeout_height,
                   PacketMsg.packet.data>>)

\* C26: on a Closed channel a TimeoutOnClose for a packet that was sent on it
\* and is still committed succeeds, whatever the packet's timeout height
\* (also one that no proof height has reached), deletes the commitment and
\* nothing else, leaves the channel Closed and emits one TimeoutPacket event
C26_TimeoutOnClosed ==
    (/\ PacketCall("timeout_on_close")
     /\ SentChannel \in DOMAIN last.pre.channels
     /\ last.pre.channels[SentChannel].state = "Closed"
     /\ Committed(last.pre)) =>
        /\ last.result.ok
        /\ Len(last.result.val) = 1
        /\ last.result.val[1].kind = "TimeoutPacket"
        /\ SentKey \notin DOMAIN ctx.packet_commitment
        /\ ctx = [last.pre EXCEPT !.packet_commitment = MapRemove(@, SentKey)]
        /\ ctx.channels[SentChannel].state = "Closed"

\* on an unordered channel, closed by a close message, a TimeoutOnClose has
\* just removed the commitment of a sent packet whose timeout height is above
\* every height the client knows
C26_Witness ==
    /\ PacketCall("timeout_on_close")
    /\ SentChannel \in DOMAIN last.pre.channels
    /\ last.pre.channels[SentChannel].state = "Closed"
    /\ last.pre.channels[SentChannel].ordering = "Unordered"
    /\ Committed(last.pre)
    /\ SentKey \in {sent[i] : i \in DOMAIN sent}
    /\ PacketMsg.packet.timeout_height = Height(0, 6)
    /\ last.result.ok
    /\ SentKey \notin DOMAIN ctx.packet_commitment

\* the (port, channel, sequence) of the packets of the events of the given
\* kinds among the events the call returned
EventKeys(kinds) ==
    {<<LastEvents[i].packet.source_port, LastEvents[i].packet.source_channel,
       LastEvents[i].packet.sequence>> :
        i \in {j \in DOMAIN LastEvents : LastEvents[j].kind \in kinds}}

\* C27: a packet commitment is stored at (port, channel, sequence) exactly
\* when a packet with that sequence was successfully sent on (port, channel)
\* and has since been neither acknowledged nor timed out: commitments are
\* stored only for packets sent, and over every call the commitments after
\* it are those before it, plus the packet the call sent, minus the packet
\* the call acknowledged or timed out, a transfer being the only message
\* that adds one and an acknowledgement, a timeout and a timeout on close the
\* only ones that remove one
C27_CommitmentIffPending ==
    /\ DOMAIN ctx.packet_commitment \subseteq {sent[i] : i \in DOMAIN sent}
    /\ last.op = "deliver" =>
          LET added == EventKeys({"SendPacket"})
              removed == EventKeys({"AcknowledgePacket", "TimeoutPacket"})
              before == DOMAIN last.pre.packet_commitment
          IN /\ DOMAIN ctx.packet_commitment = (before \cup added) \ removed
             /\ added \cap before = {}
             /\ removed \subseteq before
             /\ \A key \in before \ removed :
                   ctx.packet_commitment[key] = last.pre.packet_commitment[key]
             /\ \A key \in added :
                   /\ key = sent[Len(sent)]
                   /\ key \notin {sent[i] : i \in 1..(Len(sent) - 1)}
             /\ (PacketCall("transfer") /\ last.result.ok) =>
                   Cardinality(added) = 1 /\ removed = {}
             /\ \A t \in {"acknowledgement", "timeout", "timeout_on_close"} :
                   (PacketCall(t) /\ last.result.ok) =>
                       removed = {SentKey} /\ added = {}
             /\ (~last.result.ok
                   \/ last.batch[1].type_url
                         \notin {RouteTypeUrls[t] :
                                    t \in {"transfer", "acknowledgement", "timeout",
                                           "timeout_on_close"}}) =>
                   added = {} /\ removed = {}

\* of two packets sent, the first has just been acknowledged and its
\* commitment removed, the second is still committed
C27_Witness ==
    /\ PacketCall("acknowledgement")
    /\ last.result.ok
    /\ Len(sent) = 2
    /\ SentKey = sent[1]
    /\ DOMAIN last.pre.packet_commitment = {sent[1], sent[2]}
    /\ DOMAIN ctx.packet_commitment = {sent[2]}

\* the connection the channel end of a ChanOpenInit or ChanOpenTry names
NamedConnection == PacketMsg.channel.connection_hops[1]

\* C28: every stored channel end names a connection that is in the store,
\* whose client is in the store and not frozen; a ChanOpenInit or ChanOpenTry
\* naming a connection that is not in the store fails and stores nothing
\* (with MissingConnection, unless the Try names a previous channel that is
\* refused first)
C28_ChannelHasConnection ==
    /\ \A pc \in DOMAIN ctx.channels :
          LET cid == ctx.channels[pc].connection_hops[1]
          IN /\ Len(ctx.channels[pc].connection_hops) = 1
             /\ cid \in DOMAIN ctx.connections
             /\ ctx.connections[cid].client_id \in DOMAIN ctx.clients
             /\ ctx.clients[ctx.connections[cid].client_id].client_state # NoneV
             /\ ~is_frozen(Unwrap(ctx.clients[ctx.connections[cid].client_id].client_state))
    /\ \A t \in {"chan_open_init", "chan_open_try"} :
          (PacketCall(t) /\ NamedConnection \notin DOMAIN last.pre.connections) =>
              /\ ~last.result.ok
              /\ ctx = last.pre
              /\ last.result.err.kind = "HandlerRaisedError"
              /\ (t = "chan_open_init" \/ PacketMsg.previous_channel_id = NoneV) =>
                    last.result.err.source
                        = [kind |-> "MissingConnection", connection_id |-> NamedConnection]

\* with an open channel over connection 0 in the store, a ChanOpenInit naming
\* a connection that is not there has just been refused
C28_Witness ==
    /\ PacketCall("chan_open_init")
    /\ NamedConnection \notin DOMAIN last.pre.connections
    /\ ~last.result.ok
    /\ ctx = last.pre
    /\ \E pc \in DOMAIN ctx.channels :
          /\ ctx.channels[pc].state = "Open"
          /\ ctx.channels[pc].connection_hops = <<DefaultConnectionId>>

(***************************************************************************)
(* Properties of the raw forms.                                            *)
(***************************************************************************)
\* C29: MsgCreateAnyClient, MsgChannelOpenTry and MsgChannelOpenAck
\* round-trip through their raw forms: a domain message converted to raw and
\* back is the message; a raw message that converts to a domain message
\* converts back to the same raw message; an empty previous_channel_id is
\* the absent identifier, and the absent identifier the empty string
C29_RawRoundTrip ==
    /\ last.op = "from" =>
          /\ last.msg_back = Ok(last.msg)
          /\ last.proto = "MsgChannelOpenTry" =>
                (last.msg.previous_channel_id = NoneV
                    <=> last.raw.previous_channel_id = <<>>)
    /\ (last.op = "try_from" /\ last.result.ok) =>
          /\ last.raw_back = Some(last.raw)
          /\ last.proto = "MsgChannelOpenTry" =>
                (last.raw.previous_channel_id = <<>>
                    <=> last.result.val.previous_channel_id = NoneV)

\* a raw MsgChannelOpenTry with an empty previous_channel_id has been
\* converted to a message without a previous channel and back to itself
C29_Witness ==
    /\ last.op = "try_from"
    /\ last.proto = "MsgChannelOpenTry"
    /\ last.raw.previous_channel_id = <<>>
    /\ last.result.ok
    /\ last.result.val.previous_channel_id = NoneV
    /\ last.raw_back = Some(last.raw)

\* the fields that come before `channel` in the conversion of a raw
\* MsgChannelOpenTry are good
TryFieldsBeforeChannel(raw) ==
    /\ raw.proof_height # NoneV
    /\ Proofs_new(raw.proof_init, Unwrap(raw.proof_height)).ok
    /\ raw.previous_channel_id = <<>> \/ parse_identifier(raw.previous_channel_id).ok
    /\ parse_identifier(raw.port_id).ok

\* C30: a raw message without an optional field the domain requires does not
\* convert, and the error names the missing field: MsgCreateClient without
\* client_state gives InvalidRawClientState (missing client state), with a
\* client state and without consensus_state InvalidRawConsensusState (missing
\* consensus state); MsgChannelOpenTry and MsgChannelOpenAck without
\* proof_height give MissingHeight; MsgChannelOpenTry without channel (its
\* earlier fields being good) gives MissingChannel
C30_MissingFields ==
    last.op = "try_from" =>
       /\ (last.proto = "MsgCreateClient" /\ last.raw.client_state = NoneV) =>
             /\ ~last.result.ok
             /\ last.result.err = [kind |-> "InvalidRawClientState",
                                   context |-> "missing client state"]
       /\ (/\ last.proto = "MsgCreateClient"
           /\ last.raw.client_state # NoneV
           /\ last.raw.consensus_state = NoneV) =>
             /\ ~last.result.ok
             /\ last.result.err = [kind |-> "InvalidRawConsensusState",
                                   context |-> "missing consensus state"]
       /\ (/\ last.proto \in {"MsgChannelOpenTry", "MsgChannelOpenAck"}
           /\ last.raw.proof_height = NoneV) =>
             /\ ~last.result.ok
             /\ last.result.err = [kind |-> "MissingHeight"]
       /\ (last.proto = "MsgChannelOpenTry" /\ last.raw.channel = NoneV) =>
             /\ ~last.result.ok
             /\ TryFieldsBeforeChannel(last.raw) =>
                   last.result.err = [kind |-> "MissingChannel"]
       /\ last.result.ok =>
             \A f \in DOMAIN last.raw \cap {"client_state", "consensus_state",
                                            "proof_height", "channel"} :
                last.raw[f] # NoneV

\* a raw MsgChannelOpenTry with its proof and height and without its channel
\* has been refused with MissingChannel
C30_Witness ==
    /\ last.op = "try_from"
    /\ last.proto = "MsgChannelOpenTry"
    /\ last.raw.channel = NoneV
    /\ last.raw.proof_height # NoneV
    /\ ~last.result.ok
    /\ last.result.err = [kind |-> "MissingChannel"]

\* the raw message with its counterparty_version replaced by a plain one
WithPlainVersion(raw) == [raw EXCEPT !.counterparty_version = "ics20"]

\* C31 as amended: the counterparty version is not validated when a raw
\* ChanOpenTry or ChanOpenAck is decoded: the conversion has the outcome it
\* has for the same message with a plain version, whether the version is
\* empty, whitespace only or anything else, and a decoded message carries
\* the raw message's version verbatim
C31_VersionVerbatim ==
    (last.op = "try_from" /\ last.proto \in {"MsgChannelOpenTry", "MsgChannelOpenAck"}) =>
       /\ last.result.ok <=> Raw_try_from(last.proto, WithPlainVersion(last.raw)).ok
       /\ ~last.result.ok =>
             last.result = Raw_try_from(last.proto, WithPlainVersion(last.raw))
       /\ last.result.ok =>
             last.result.val.counterparty_version = last.raw.counterparty_version

\* a raw ChanOpenTry whose counterparty_version is a single space has been
\* decoded to a message that carries the single space
C31_Witness ==
    /\ last.op = "try_from"
    /\ last.proto = "MsgChannelOpenTry"
    /\ last.raw.counterparty_version = " "
    /\ last.result.ok
    /\ last.result.val.counterparty_version = " "

\* C31 as stated: decoding a raw ChanOpenTry or ChanOpenAck whose
\* counterparty_version is empty after trimming fails, and a version that
\* is not empty after trimming is accepted verbatim
C31_RejectsEmptyAfterTrim ==
    (last.op = "try_from" /\ last.proto \in {"MsgChannelOpenTry", "MsgChannelOpenAck"}) =>
       /\ trim(last.raw.counterparty_version) = "" => ~last.result.ok
       /\ (trim(last.raw.counterparty_version) # "" /\ last.result.ok) =>
             last.result.val.counterparty_version = last.raw.counterparty_version

(***************************************************************************)
(* Properties of dispatch.                                                 *)
(***************************************************************************)
\* the layers of Ics26Envelope
Layers == {"Ics2Msg", "Ics3Msg", "Ics4ChannelMsg", "Ics20Msg", "Ics4PacketMsg"}

\* C32: dispatch wraps errors by origin: when the sub-handler of the
\* message's layer returns an error, dispatch returns HandlerRaisedError
\* around that error and no keeper has written (the context is the one
\* before the call); when the handler succeeds and applying its result
\* fails, dispatch returns KeeperRaisedError around the keeper's error;
\* dispatch returns no other error, and succeeds when both succeed
C32_ErrorsByOrigin ==
    last.op = "dispatch" =>
       LET output == LayerHandler(last.msg.layer, last.pre, last.msg)
           stored == LayerKeeper(last.msg.layer, last.pre, output.val.result)
       IN /\ last.msg.layer \in Layers
          /\ ~output.ok =>
                /\ ~last.result.ok
                /\ last.result.err.kind = "HandlerRaisedError"
                /\ last.result.err.source = output.err
                /\ ctx = last.pre
          /\ (output.ok /\ ~stored.ok) =>
                /\ ~last.result.ok
                /\ last.result.err.kind = "KeeperRaisedError"
                /\ last.result.err.source = stored.err
          /\ (output.ok /\ stored.ok) => last.result.ok
          /\ ~last.result.ok =>
                last.result.err.kind \in {"HandlerRaisedError", "KeeperRaisedError"}

\* a RecvPacket refused by the packet handler has come back from dispatch
\* as HandlerRaisedError, with the context as it was
C32_Witness ==
    /\ last.op = "dispatch"
    /\ last.msg.layer = "Ics4PacketMsg"
    /\ last.msg.variant = "RecvPacket"
    /\ ~last.result.ok
    /\ last.result.err.kind = "HandlerRaisedError"
    /\ ~ics04_packet_msg_dispatcher(last.pre, last.msg).ok
    /\ ctx = last.pre

\* C33: a dispatch of one message whose sub-handler returns an error leaves
\* the context as it was: nothing a handler does writes to the store, so
\* the next message is handled on the state the failed one found, and no
\* packet counts as sent
C33_FailedDispatchKeepsContext ==
    [][(last'.op = "dispatch" /\ ~last'.result.ok) => (ctx' = ctx /\ sent' = sent)]_vars

\* the routing test's ChanCloseConfirm on the channel ChanCloseInit has
\* closed: refused, and the context still the one the message found
C33_Witness ==
    /\ last.op = "dispatch"
    /\ last.msg.variant = "ChannelCloseConfirm"
    /\ ~last.result.ok
    /\ last.result.err.kind = "HandlerRaisedError"
    /\ IsSome(channel_end(last.pre, <<DefaultPortId, DefaultChannelId>>))
    /\ Unwrap(channel_end(last.pre, <<DefaultPortId, DefaultChannelId>>)).state = "Closed"
    /\ ctx = last.pre

(***************************************************************************)
(* Properties of the store over its life.                                  *)
(***************************************************************************)
\* the maps of the store no keeper removes from: all but packet_commitment
\* and packet_acknowledgement
GrowingMaps ==
    {"clients", "client_connections", "connections", "connection_channels",
     "channels", "next_sequence_send", "next_sequence_recv", "next_sequence_ack",
     "port_capabilities", "packet_receipt"}

\* C34: entities are never destroyed: over every deliver and dispatch,
\* successful or failed, a client record, a connection end or a channel end
\* that is in the store is still in it (a client record with its client
\* state and every consensus state it had); no entry of any map other than
\* the packet commitments and the packet acknowledgements is removed
C34_EntitiesNeverDestroyed ==
    [][/\ \A m \in GrowingMaps : DOMAIN ctx[m] \subseteq DOMAIN ctx'[m]
       /\ \A id \in DOMAIN ctx.clients :
             /\ id \in DOMAIN ctx'.clients
             /\ IsSome(ctx.clients[id].client_state) =>
                   IsSome(ctx'.clients[id].client_state)
             /\ DOMAIN ctx.clients[id].consensus_states
                   \subseteq DOMAIN ctx'.clients[id].consensus_states]_vars

\* a call has just closed a channel or removed a packet commitment, on a
\* store that holds a client, a connection and a channel: all three are
\* still there
C34_Witness ==
    /\ last.op \in {"deliver", "dispatch"}
    /\ last.result.ok
    /\ last.pre.clients # EmptyMap
    /\ last.pre.connections # EmptyMap
    /\ <<DefaultPortId, DefaultChannelId>> \in DOMAIN last.pre.channels
    /\ DOMAIN last.pre.packet_commitment # DOMAIN ctx.packet_commitment
    /\ DOMAIN ctx.packet_commitment \subseteq DOMAIN last.pre.packet_commitment
    /\ ctx.channels[<<DefaultPortId, DefaultChannelId>>].state = "Closed"
    /\ DOMAIN last.pre.clients \subseteq DOMAIN ctx.clients
    /\ DOMAIN last.pre.connections \subseteq DOMAIN ctx.connections

(***************************************************************************)
(* Properties of the host chain.                                           *)
(***************************************************************************)
\* C35: every context reached from MockContext::new by
\* advance_host_chain_height, MockContext::deliver and send is valid: the
\* history holds at most max_history_size blocks, its last block, when
\* there is one, has the height latest_height, and the heights of
\* consecutive blocks rise by exactly one; validate accepts the context
C35_ContextValid ==
    /\ Len(ctx.history) <= ctx.max_history_size
    /\ ctx.history # <<>> => ctx.history[Len(ctx.history)].height = ctx.latest_height
    /\ \A i \in 1..(Len(ctx.history) - 1) :
          /\ ctx.history[i + 1].height.revision_number
                = ctx.history[i].height.revision_number
          /\ ctx.history[i + 1].height.revision_height
                = ctx.history[i].height.revision_height + 1
    /\ validate(ctx) = Ok(<<>>)
    /\ last.op = "read" => last.validate = Ok(<<>>)

\* a full history of more than one block has just been rotated by a call
\* that made a block: its oldest block is gone and the new one is at the tip
C35_Witness ==
    /\ last.op \in {"advance_host_chain_height", "MockContext::deliver", "send"}
    /\ last.pre.max_history_size >= 2
    /\ Len(last.pre.history) = last.pre.max_history_size
    /\ Len(ctx.history) = ctx.max_history_size
    /\ ctx.history[1] = last.pre.history[2]
    /\ ctx.history[Len(ctx.history)].height = HeightIncrement(last.pre.latest_height)

\* C36 as amended: after advance_host_chain_height on a context whose
\* latest height h has a revision height above zero, latest_height is
\* h.increment(); host_block(h) returns the block of height h when
\* max_history_size is at least 2; with max_history_size = 1 the block of h
\* has been pruned and host_block(h) returns None
C36_PreviousBlockKept ==
    (/\ last.op = "advance_host_chain_height"
     /\ last.pre.latest_height.revision_height > 0) =>
        /\ ctx.latest_height = HeightIncrement(last.pre.latest_height)
        /\ IF ctx.max_history_size >= 2
           THEN /\ IsSome(host_block(ctx, last.pre.latest_height))
                /\ Unwrap(host_block(ctx, last.pre.latest_height)).height
                      = last.pre.latest_height
           ELSE host_block(ctx, last.pre.latest_height) = NoneV

\* a context with a window of three blocks, full, has been advanced and the
\* block of the height it had is still returned
C36_Witness ==
    /\ last.op = "advance_host_chain_height"
    /\ last.pre.latest_height.revision_height > 0
    /\ ctx.max_history_size = 3
    /\ Len(last.pre.history) = 3
    /\ IsSome(host_block(ctx, last.pre.latest_height))
    /\ Unwrap(host_block(ctx, last.pre.latest_height)).height = last.pre.latest_height

\* C36 as stated: after advance_host_chain_height on a context whose latest
\* height h has a revision height above zero, latest_height is
\* h.increment() and host_block(h) returns a block of height h, for every
\* max_history_size >= 1
C36_PreviousBlockRetrievable ==
    (/\ last.op = "advance_host_chain_height"
     /\ last.pre.latest_height.revision_height > 0
     /\ last.pre.max_history_size >= 1) =>
        /\ ctx.latest_height = HeightIncrement(last.pre.latest_height)
        /\ IsSome(host_block(ctx, last.pre.latest_height))
        /\ Unwrap(host_block(ctx, last.pre.latest_height)).height
              = last.pre.latest_height

\* C37: the history is never empty when host_oldest_height is read: in
\* every context reached from MockContext::new history[0] exists, so that
\* host_oldest_height returns the height of the oldest block kept, and
\* host_block never subtracts more blocks than latest_height counts
C37_HistoryNeverEmpty ==
    /\ Len(ctx.history) <= ctx.latest_height.revision_height
    /\ last.op = "read" =>
          /\ ~last.host_oldest_height.panic
          /\ last.pre.history # <<>>
          /\ last.host_oldest_height.val = last.pre.history[1].height

\* C40: the host chain advances by exactly one block for a successful
\* submission and not at all for a failed one: after a successful send,
\* whatever the number of its messages, and after a successful
\* MockContext::deliver, latest_height is the height before incremented
\* once and the history is that of one advance_host_chain_height; after a
\* failed one latest_height and the history are those before the call
C40_OneBlockPerSubmission ==
    last.op \in {"send", "MockContext::deliver"} =>
       IF last.result.ok
       THEN /\ ctx.latest_height = HeightIncrement(last.pre.latest_height)
            /\ ctx.history = advance_host_chain_height(last.pre).history
            /\ ctx.history[Len(ctx.history)].height = ctx.latest_height
            /\ last.pre.history # <<>> /\ ctx.max_history_size >= 2 =>
                  ctx.history[Len(ctx.history) - 1]
                      = last.pre.history[Len(last.pre.history)]
       ELSE /\ ctx.latest_height = last.pre.latest_height
            /\ ctx.history = last.pre.history
            /\ last.result.err.kind = "TransactionFailed"

\* a batch of two messages has been sent with success and the chain is one
\* block higher
C40_Witness ==
    /\ last.op = "send"
    /\ Len(last.msgs) = 2
    /\ last.result.ok
    /\ Len(last.result.val) = 2
    /\ ctx.latest_height = HeightIncrement(last.pre.latest_height)

(***************************************************************************)
(* Properties of the sequence builders.                                    *)
(***************************************************************************)
\* the context c with the map `field` gaining or replacing the entry of key
WithEntry(c, field, key, value) == [c EXCEPT ![field] = MapInsert(@, key, value)]

\* C38: with_ack_sequence(port, channel, s) returns the context with
\* next_sequence_ack mapping (port, channel) to s, every other entry of
\* next_sequence_ack kept, no entry taken from next_sequence_send, and all
\* other fields unchanged, as with_send_sequence and with_recv_sequence do
\* for next_sequence_send and next_sequence_recv
C38_AckSequenceFrame ==
    /\ last.op = "with_send_sequence" =>
          ctx = WithEntry(last.pre, "next_sequence_send", last.key, last.seq_number)
    /\ last.op = "with_recv_sequence" =>
          ctx = WithEntry(last.pre, "next_sequence_recv", last.key, last.seq_number)
    /\ last.op = "with_ack_sequence" =>
          /\ ctx.next_sequence_ack[last.key] = last.seq_number
          /\ \A k \in DOMAIN last.pre.next_sequence_ack \ {last.key} :
                /\ k \in DOMAIN ctx.next_sequence_ack
                /\ ctx.next_sequence_ack[k] = last.pre.next_sequence_ack[k]
          /\ DOMAIN ctx.next_sequence_ack
                \subseteq DOMAIN last.pre.next_sequence_ack \cup {last.key}
          /\ ctx = WithEntry(last.pre, "next_sequence_ack", last.key, last.seq_number)

(***************************************************************************)
(* Properties of the client records the messages make.                     *)
(***************************************************************************)
\* the packets a send may be asked for on channel 0
SendablePackets ==
    {RoutePacket(seq, th) : seq \in 1..MaxSeq, th \in PacketTimeouts \cup {HeightZero}}

\* C39: in every store made from the empty one by CreateClient and
\* UpdateClient messages (and the handshakes that put a channel on the
\* client) each client record holds its client state and a consensus state
\* at exactly that state's latest_height, so that no send_packet on a
\* channel of such a client fails with MissingClientConsensusState
C39_ConsensusAtLatestHeight ==
    /\ \A id \in DOMAIN ctx.clients :
          /\ IsSome(ctx.clients[id].client_state)
          /\ latest_height(Unwrap(ctx.clients[id].client_state))
                \in DOMAIN ctx.clients[id].consensus_states
          /\ IsSome(consensus_state(ctx, id,
                        latest_height(Unwrap(ctx.clients[id].client_state))))
    /\ \A packet \in SendablePackets :
          \A r \in {send_packet(ctx, packet)} :
             r.ok \/ r.err.kind # "MissingClientConsensusState"
    /\ (PacketCall("transfer") /\ ~last.result.ok) =>
          last.result.err.source.kind # "MissingClientConsensusState"

\* a transfer has been sent on the channel of a client that UpdateClient
\* had raised to height 2: the send found the consensus state of height 2
C39_Witness ==
    /\ PacketCall("transfer")
    /\ last.result.ok
    /\ RouteClientId \in DOMAIN last.pre.clients
    /\ latest_height(Unwrap(last.pre.clients[RouteClientId].client_state)) = Height(0, 2)
    /\ DOMAIN last.pre.clients[RouteClientId].consensus_states
          = {Height(0, 1), Height(0, 2)}
====
